---- MODULE Spec2Model ----
(***************************************************************************)
(* EstimateAI: the document processing pipeline (processProjectFiles), the *)
(* fallback estimator (generateFallbackEstimation) and the AI response     *)
(* parser (parseAIResponse), with the Supabase tables they read and write. *)
(*                                                                         *)
(* Money is kept exact as dollars and cents ([d, c], value d*100 + c       *)
(* cents, 0 <= c < 100); an accuracy is kept in tenths of a percent.       *)
(* Math.random() is a stream of values n / RandRes, n \in 0..RandRes-1,    *)
(* started at a nondeterministic seed.                                     *)
(***************************************************************************)
EXTENDS Integers, Sequences, FiniteSets, TLC

\* ------------------------------------------------------------------ bounds
MaxFiles == 2
MaxRuns == 2
MaxFaults == 1
RandRes == 3
MaxSeed == 1
MaxSelected == 2
MaxOffered == 2
MaxProjects == 1
MaxRenders == 1

\* ------------------------------------------------------------------- money
Money(d, c) == [d |-> d + (c \div 100), c |-> c % 100]

MZero == Money(0, 0)

MAdd(a, b) == Money(a.d + b.d, a.c + b.c)

MScale(q, m) == Money(q * m.d, q * m.c)

MPositive(m) == m.d > 0 \/ (m.d = 0 /\ m.c > 0)

\* items.reduce((sum, item) => sum + item.amount, 0)
RECURSIVE SumAmounts(_)
SumAmounts(items) ==
    IF items = << >> THEN MZero
    ELSE MAdd(items[1].amount, SumAmounts(Tail(items)))

\* ----------------------------------------------------- fallback estimator
\* The catalog of generateFallbackEstimation; baseRate in cents.
Catalog ==
    << [category |-> "Structural", description |-> "Concrete Foundation", unit |-> "m3",   baseRate |-> 45000],
       [category |-> "Structural", description |-> "Steel Framework",     unit |-> "tons", baseRate |-> 280000],
       [category |-> "Structural", description |-> "Reinforcement Bars",  unit |-> "kg",   baseRate |-> 120],
       [category |-> "Civil",      description |-> "Brick Work",          unit |-> "m2",   baseRate |-> 8500],
       [category |-> "Civil",      description |-> "Plastering",          unit |-> "m2",   baseRate |-> 2500],
       [category |-> "Civil",      description |-> "Flooring Tiles",      unit |-> "m2",   baseRate |-> 12000],
       [category |-> "Electrical", description |-> "Wiring & Fixtures",   unit |-> "lot",  baseRate |-> 18500000],
       [category |-> "Electrical", description |-> "Distribution Panel",  unit |-> "unit", baseRate |-> 1500000],
       [category |-> "Plumbing",   description |-> "Piping & Fixtures",   unit |-> "lot",  baseRate |-> 14500000],
       [category |-> "Plumbing",   description |-> "Water Tank",          unit |-> "unit", baseRate |-> 2500000],
       [category |-> "Finishing",  description |-> "Interior Painting",   unit |-> "m2",   baseRate |-> 3500],
       [category |-> "Finishing",  description |-> "Exterior Painting",   unit |-> "m2",   baseRate |-> 4500],
       [category |-> "HVAC",       description |-> "Air Conditioning",    unit |-> "unit", baseRate |-> 8500000],
       [category |-> "HVAC",       description |-> "Ventilation System",  unit |-> "lot",  baseRate |-> 6500000] >>

\* Math.random(): the k-th value of the stream started at seed, as a
\* numerator over RandRes (the value is Draw / RandRes, in [0, 1)).
Draw(seed, k) == (seed + k * (seed + 2) + ((k * k) \div 3)) % RandRes

\* items.sort(() => Math.random() - 0.5): the comparator ignores its
\* arguments; the element being placed moves left while the comparator
\* answers > 0. Returns the position it stops at and the draws used so far.
RECURSIVE InsertPos(_, _, _)
InsertPos(j, seed, k) ==
    IF j = 0 THEN [pos |-> 0, k |-> k]
    ELSE IF 2 * Draw(seed, k) > RandRes
         THEN InsertPos(j - 1, seed, k + 1)
         ELSE [pos |-> j, k |-> k + 1]

RECURSIVE SortFrom(_, _, _, _)
SortFrom(arr, i, seed, k) ==
    IF i > Len(arr) THEN [arr |-> arr, k |-> k]
    ELSE LET p == InsertPos(i - 1, seed, k)
             moved == SubSeq(arr, 1, p.pos) \o << arr[i] >>
                      \o SubSeq(arr, p.pos + 1, i - 1)
                      \o SubSeq(arr, i + 1, Len(arr))
         IN  SortFrom(moved, i + 1, seed, p.k)

\* Mutant of SliceCount: the lower bound of 8 items is dropped.
SliceCountFromZero(n) == (n * 5) \div RandRes

\* .slice(0, 8 + Math.floor(Math.random() * 5))
SliceCount(n) == 8 + ((n * 5) \div RandRes)

\* Mutant of FallbackItem: the quantity is floor(random * 200), without the
\* + 10 that keeps it positive.
FallbackItemNoOffset(entry, nq, nr) ==
    LET quantity == (nq * 200) \div RandRes
        num   == entry.baseRate * (4 * RandRes + 2 * nr)
        den   == 5 * RandRes
        whole == num \div den
        rest  == num % den
        rateCents  == whole + (IF 2 * rest >= den THEN 1 ELSE 0)
        fracCents  == (2 * quantity * rest + den) \div (2 * den)
    IN  [category    |-> entry.category,
         description |-> entry.description,
         quantity    |-> quantity,
         unit        |-> entry.unit,
         rate        |-> Money(0, rateCents),
         amount      |-> Money(quantity * (whole \div 100),
                               quantity * (whole % 100) + fracCents)]

\* Mutant of FallbackItem: the jitter of the rate is +/-40%, the factor
\* 0.6 + random * 0.8 = (3*RandRes + 4*nr) / (5*RandRes).
FallbackItemWideJitter(entry, nq, nr) ==
    LET quantity == ((nq * 200) \div RandRes) + 10
        num   == entry.baseRate * (3 * RandRes + 4 * nr)
        den   == 5 * RandRes
        whole == num \div den
        rest  == num % den
        rateCents  == whole + (IF 2 * rest >= den THEN 1 ELSE 0)
        fracCents  == (2 * quantity * rest + den) \div (2 * den)
    IN  [category    |-> entry.category,
         description |-> entry.description,
         quantity    |-> quantity,
         unit        |-> entry.unit,
         rate        |-> Money(0, rateCents),
         amount      |-> Money(quantity * (whole \div 100),
                               quantity * (whole % 100) + fracCents)]

\* One catalog entry turned into an item with the draws nq (quantity) and
\* nr (rate): quantity = floor(random * 200) + 10, rate = baseRate *
\* (0.8 + random * 0.4) = baseRate * (4*RandRes + 2*nr) / (5*RandRes),
\* amount = quantity * rate with the unrounded rate; rate and amount are
\* then each rounded to 2 decimals (Math.round(x * 100) / 100).
FallbackItem(entry, nq, nr) ==
    LET quantity == ((nq * 200) \div RandRes) + 10
        num   == entry.baseRate * (4 * RandRes + 2 * nr)
        den   == 5 * RandRes
        whole == num \div den
        rest  == num % den
        rateCents  == whole + (IF 2 * rest >= den THEN 1 ELSE 0)
        fracCents  == (2 * quantity * rest + den) \div (2 * den)
    IN  [category    |-> entry.category,
         description |-> entry.description,
         quantity    |-> quantity,
         unit        |-> entry.unit,
         rate        |-> Money(0, rateCents),
         amount      |-> Money(quantity * (whole \div 100),
                               quantity * (whole % 100) + fracCents)]

\* generateFallbackEstimation(): the items, and the number of draws used.
generateFallbackEstimation(seed) ==
    LET sorted   == SortFrom(Catalog, 2, seed, 0)
        count    == SliceCount(Draw(seed, sorted.k))
        selected == SubSeq(sorted.arr, 1, count)
        k0       == sorted.k + 1
    IN  [items |-> [i \in 1..count |->
                      FallbackItem(selected[i],
                                   Draw(seed, k0 + 2 * (i - 1)),
                                   Draw(seed, k0 + 2 * (i - 1) + 1))],
         k |-> k0 + 2 * count]

\* The starts of the Math.random() stream that are explored, and the
\* output of generateFallbackEstimation() for each.
Seeds == 0..MaxSeed

FallbackOutputs == [seed \in Seeds |-> generateFallbackEstimation(seed)]

\* ------------------------------------------------------------ AI provider
Providers == {"openai", "anthropic", "google"}

\* A field of the provider's JSON as Number(...) sees it: a number, or NaN
\* when the field is missing or not numeric.
Num(v) == [nan |-> FALSE, v |-> v]

NaN == [nan |-> TRUE, v |-> 0]

\* Number(x) || dflt
NumberOr(x, dflt) == IF x.nan \/ x.v = 0 THEN dflt ELSE x.v

\* The texts a provider may answer with. json: a {...} block is found and
\* parses; hasItems: identifiedItems is an array. Rates and the reported
\* total are in cents, the accuracy in percent.
Responses ==
    { [json |-> FALSE, hasItems |-> FALSE, identifiedItems |-> << >>,
       totalEstimatedCost |-> NaN, accuracy |-> NaN],
      [json |-> TRUE, hasItems |-> FALSE, identifiedItems |-> << >>,
       totalEstimatedCost |-> Num(120000), accuracy |-> Num(95)],
      [json |-> TRUE, hasItems |-> TRUE, identifiedItems |-> << >>,
       totalEstimatedCost |-> Num(500000), accuracy |-> Num(90)],
      [json |-> TRUE, hasItems |-> TRUE,
       identifiedItems |->
         << [category |-> "Structural", description |-> "Concrete slab",
             quantity |-> Num(10), unit |-> "m3", estimatedRate |-> Num(25050)],
            [category |-> "", description |-> "",
             quantity |-> NaN, unit |-> "", estimatedRate |-> Num(1999)] >>,
       totalEstimatedCost |-> Num(99900), accuracy |-> Num(88)] }

\* parseAIResponse: the result when the text cannot be used (catch branch).
ParseFailure ==
    [identifiedItems |-> << >>, totalEstimatedCost |-> MZero, accuracy |-> 75]

OrDefault(s, dflt) == IF s = "" THEN dflt ELSE s

\* Mutant of parseAIResponse: a text that cannot be used yields one
\* placeholder item instead of an empty item list.
parseAIResponsePlaceholder(response) ==
    IF ~response.json \/ ~response.hasItems
    THEN [identifiedItems |->
            << [category |-> "General", description |-> "Construction item",
                quantity |-> 1, unit |-> "unit", estimatedRate |-> MZero] >>,
          totalEstimatedCost |-> MZero, accuracy |-> 75]
    ELSE [identifiedItems |->
            [i \in 1..Len(response.identifiedItems) |->
               LET item == response.identifiedItems[i]
               IN  [category      |-> OrDefault(item.category, "General"),
                    description   |-> OrDefault(item.description, "Construction item"),
                    quantity      |-> NumberOr(item.quantity, 1),
                    unit          |-> OrDefault(item.unit, "unit"),
                    estimatedRate |-> Money(0, NumberOr(item.estimatedRate, 0))]],
          totalEstimatedCost |-> Money(0, NumberOr(response.totalEstimatedCost, 0)),
          accuracy |-> NumberOr(response.accuracy, 85)]

parseAIResponse(response) ==
    IF ~response.json \/ ~response.hasItems THEN ParseFailure
    ELSE [identifiedItems |->
            [i \in 1..Len(response.identifiedItems) |->
               LET item == response.identifiedItems[i]
               IN  [category      |-> OrDefault(item.category, "General"),
                    description   |-> OrDefault(item.description, "Construction item"),
                    quantity      |-> NumberOr(item.quantity, 1),
                    unit          |-> OrDefault(item.unit, "unit"),
                    estimatedRate |-> Money(0, NumberOr(item.estimatedRate, 0))]],
          totalEstimatedCost |-> Money(0, NumberOr(response.totalEstimatedCost, 0)),
          accuracy |-> NumberOr(response.accuracy, 85)]

\* The environments the build may run in. keys: the providers whose
\* VITE_<PROVIDER>_API_KEY is set; provider: VITE_AI_PROVIDER || 'openai'.
Configurations ==
    { [keys |-> {},            provider |-> "openai"],
      [keys |-> {"openai"},    provider |-> "openai"],
      [keys |-> {"anthropic"}, provider |-> "openai"] }

\* getAvailableProviders(): the providers whose key is set.
getAvailableProviders(e) == e.keys

\* aiConfig.apiKey: the first key that is set, '' (FALSE) when none is.
HasApiKey(e) == e.keys # {}

\* availableProviders.length > 0 && aiConfig.apiKey
UseRealAI(e) == getAvailableProviders(e) # {} /\ HasApiKey(e)

\* Mutant of ProviderInitialized: any key initializes the configured
\* provider.
ProviderInitializedByAnyKey(e) == e.keys # {}

\* analyzeWith<Provider>: the client of the configured provider exists.
ProviderInitialized(e) == e.provider \in e.keys

\* ------------------------------------------------------------- aggregation
\* result.identifiedItems.map(item => ({..., amount: quantity * estimatedRate}))
ToEstimationItems(result) ==
    [i \in 1..Len(result.identifiedItems) |->
       LET item == result.identifiedItems[i]
       IN  [category    |-> item.category,
            description |-> item.description,
            quantity    |-> item.quantity,
            unit        |-> item.unit,
            rate        |-> item.estimatedRate,
            amount      |-> MScale(item.quantity, item.estimatedRate)]]

\* allAnalysisResults.flatMap(...)
RECURSIVE FlatMapItems(_)
FlatMapItems(results) ==
    IF results = << >> THEN << >>
    ELSE ToEstimationItems(results[1]) \o FlatMapItems(Tail(results))

\* Math.round(x * 10) for x = num / den, den > 0: the accuracy in tenths.
RoundTenths(num, den) == (20 * num + den) \div (2 * den)

\* Mutant of Aggregate: the fallback estimator is called once per collected
\* result when the results carry no items.
AggregateFallbackPerResult(real, results, total, accSum, seed) ==
    LET flat == FlatMapItems(results)
        fb   == FallbackOutputs[seed]
    IN  IF real /\ Len(results) > 0
        THEN IF Len(flat) = 0
             THEN [items |-> fb.items, total |-> SumAmounts(fb.items),
                   accuracy |-> RoundTenths(85, 1), fallback |-> Len(results)]
             ELSE [items |-> flat, total |-> SumAmounts(flat),
                   accuracy |-> RoundTenths(accSum, Len(results)), fallback |-> 0]
        ELSE [items |-> fb.items, total |-> SumAmounts(fb.items),
              accuracy |-> RoundTenths(92 * RandRes + 6 * Draw(seed, fb.k), RandRes),
              fallback |-> 1]

\* Mutant of Aggregate: with real results the total is the sum of the
\* totals the provider reported (line 85), not recomputed from the items.
AggregateTrustingProvider(real, results, total, accSum, seed) ==
    LET flat == FlatMapItems(results)
        fb   == FallbackOutputs[seed]
    IN  IF real /\ Len(results) > 0
        THEN IF Len(flat) = 0
             THEN [items |-> fb.items, total |-> SumAmounts(fb.items),
                   accuracy |-> RoundTenths(85, 1), fallback |-> 1]
             ELSE [items |-> flat, total |-> total,
                   accuracy |-> RoundTenths(accSum, Len(results)), fallback |-> 0]
        ELSE [items |-> fb.items, total |-> SumAmounts(fb.items),
              accuracy |-> RoundTenths(92 * RandRes + 6 * Draw(seed, fb.k), RandRes),
              fallback |-> 1]

\* Mutant of Aggregate: an empty flattened item list is not replaced by the
\* fallback estimator's output.
AggregateNoEmptyCheck(real, results, total, accSum, seed) ==
    LET flat == FlatMapItems(results)
        fb   == FallbackOutputs[seed]
    IN  IF real /\ Len(results) > 0
        THEN [items |-> flat, total |-> SumAmounts(flat),
              accuracy |-> RoundTenths(accSum, Len(results)), fallback |-> 0]
        ELSE [items |-> fb.items, total |-> SumAmounts(fb.items),
              accuracy |-> RoundTenths(92 * RandRes + 6 * Draw(seed, fb.k), RandRes),
              fallback |-> 1]

\* Lines 109-139 of processProjectFiles: the item list, the total and the
\* accuracy (in tenths) of a run, and whether the fallback estimator ran.
\* total is totalEstimatedCost and accSum is averageAccuracy as the file
\* loop left them; seed starts the Math.random() stream of this run.
Aggregate(real, results, total, accSum, seed) ==
    LET flat == FlatMapItems(results)
        fb   == FallbackOutputs[seed]
    IN  IF real /\ Len(results) > 0
        THEN IF Len(flat) = 0
             THEN [items |-> fb.items, total |-> SumAmounts(fb.items),
                   accuracy |-> RoundTenths(85, 1), fallback |-> 1]
             ELSE [items |-> flat, total |-> SumAmounts(flat),
                   accuracy |-> RoundTenths(accSum, Len(results)), fallback |-> 0]
        ELSE [items |-> fb.items, total |-> SumAmounts(fb.items),
              accuracy |-> RoundTenths(92 * RandRes + 6 * Draw(seed, fb.k), RandRes),
              fallback |-> 1]

\* `${Math.round((Date.now() - startTime) / 1000)}s`
ProcessingTime(seconds) == ToString(seconds) \o "s"

\* ------------------------------------------------------------- localization
\* utils/localization.ts (part_003). A JavaScript number is modelled by the
\* exact rational it stands for, [n, d] in lowest terms with d > 0: the
\* rounding of binary64 (2^-53 per operation) is far below every tolerance
\* stated about these functions and is left out.
RECURSIVE GCD(_, _)
GCD(a, b) == IF b = 0 THEN a ELSE GCD(b, a % b)

Abs(x) == IF x < 0 THEN -x ELSE x

Rat(n, d) == LET g == GCD(Abs(n), d) IN [n |-> n \div g, d |-> d \div g]

\* a * b
RMul(a, b) ==
    LET g1 == GCD(Abs(a.n), b.d)
        g2 == GCD(Abs(b.n), a.d)
    IN  [n |-> (a.n \div g1) * (b.n \div g2), d |-> (a.d \div g2) * (b.d \div g1)]

\* a / b, for b > 0
RDiv(a, b) == RMul(a, [n |-> b.d, d |-> b.n])

\* a - b
RSub(a, b) == Rat(a.n * b.d - b.n * a.d, a.d * b.d)

\* a + b
RAdd(a, b) == Rat(a.n * b.d + b.n * a.d, a.d * b.d)

RAbs(a) == [n |-> Abs(a.n), d |-> a.d]

\* a <= b
RLe(a, b) == a.n * b.d <= b.n * a.d

\* Lines 20-330: the fields of CountryConfig the functions below read. A
\* locale tag is the sequence of its subtags ('en-US' is << "en", "US" >>),
\* and m2 and m3 are written for the units with a superscript.
COUNTRIES ==
    << [code |-> "US", currency |-> "USD", locale |-> << "en", "US" >>,
        timezone |-> "America/New_York", measurementSystem |-> "imperial",
        constructionUnits |-> [area |-> "sq ft", volume |-> "cu ft", length |-> "ft", weight |-> "lbs"]],
       [code |-> "CA", currency |-> "CAD", locale |-> << "en", "CA" >>,
        timezone |-> "America/Toronto", measurementSystem |-> "metric",
        constructionUnits |-> [area |-> "m2", volume |-> "m3", length |-> "m", weight |-> "kg"]],
       [code |-> "MX", currency |-> "MXN", locale |-> << "en", "MX" >>,
        timezone |-> "America/Mexico_City", measurementSystem |-> "metric",
        constructionUnits |-> [area |-> "m2", volume |-> "m3", length |-> "m", weight |-> "kg"]],
       [code |-> "GB", currency |-> "GBP", locale |-> << "en", "GB" >>,
        timezone |-> "Europe/London", measurementSystem |-> "metric",
        constructionUnits |-> [area |-> "m2", volume |-> "m3", length |-> "m", weight |-> "kg"]],
       [code |-> "DE", currency |-> "EUR", locale |-> << "en", "DE" >>,
        timezone |-> "Europe/Berlin", measurementSystem |-> "metric",
        constructionUnits |-> [area |-> "m2", volume |-> "m3", length |-> "m", weight |-> "kg"]],
       [code |-> "FR", currency |-> "EUR", locale |-> << "en", "FR" >>,
        timezone |-> "Europe/Paris", measurementSystem |-> "metric",
        constructionUnits |-> [area |-> "m2", volume |-> "m3", length |-> "m", weight |-> "kg"]],
       [code |-> "ES", currency |-> "EUR", locale |-> << "en", "ES" >>,
        timezone |-> "Europe/Madrid", measurementSystem |-> "metric",
        constructionUnits |-> [area |-> "m2", volume |-> "m3", length |-> "m", weight |-> "kg"]],
       [code |-> "IT", currency |-> "EUR", locale |-> << "en", "IT" >>,
        timezone |-> "Europe/Rome", measurementSystem |-> "metric",
        constructionUnits |-> [area |-> "m2", volume |-> "m3", length |-> "m", weight |-> "kg"]],
       [code |-> "NL", currency |-> "EUR", locale |-> << "en", "NL" >>,
        timezone |-> "Europe/Amsterdam", measurementSystem |-> "metric",
        constructionUnits |-> [area |-> "m2", volume |-> "m3", length |-> "m", weight |-> "kg"]],
       [code |-> "CH", currency |-> "CHF", locale |-> << "en", "CH" >>,
        timezone |-> "Europe/Zurich", measurementSystem |-> "metric",
        constructionUnits |-> [area |-> "m2", volume |-> "m3", length |-> "m", weight |-> "kg"]],
       [code |-> "SE", currency |-> "SEK", locale |-> << "en", "SE" >>,
        timezone |-> "Europe/Stockholm", measurementSystem |-> "metric",
        constructionUnits |-> [area |-> "m2", volume |-> "m3", length |-> "m", weight |-> "kg"]],
       [code |-> "NO", currency |-> "NOK", locale |-> << "en", "NO" >>,
        timezone |-> "Europe/Oslo", measurementSystem |-> "metric",
        constructionUnits |-> [area |-> "m2", volume |-> "m3", length |-> "m", weight |-> "kg"]],
       [code |-> "JP", currency |-> "JPY", locale |-> << "en", "JP" >>,
        timezone |-> "Asia/Tokyo", measurementSystem |-> "metric",
        constructionUnits |-> [area |-> "m2", volume |-> "m3", length |-> "m", weight |-> "kg"]],
       [code |-> "CN", currency |-> "CNY", locale |-> << "en", "CN" >>,
        timezone |-> "Asia/Shanghai", measurementSystem |-> "metric",
        constructionUnits |-> [area |-> "m2", volume |-> "m3", length |-> "m", weight |-> "kg"]],
       [code |-> "IN", currency |-> "INR", locale |-> << "en", "IN" >>,
        timezone |-> "Asia/Kolkata", measurementSystem |-> "metric",
        constructionUnits |-> [area |-> "sq ft", volume |-> "cu ft", length |-> "ft", weight |-> "kg"]],
       [code |-> "AU", currency |-> "AUD", locale |-> << "en", "AU" >>,
        timezone |-> "Australia/Sydney", measurementSystem |-> "metric",
        constructionUnits |-> [area |-> "m2", volume |-> "m3", length |-> "m", weight |-> "kg"]],
       [code |-> "NZ", currency |-> "NZD", locale |-> << "en", "NZ" >>,
        timezone |-> "Pacific/Auckland", measurementSystem |-> "metric",
        constructionUnits |-> [area |-> "m2", volume |-> "m3", length |-> "m", weight |-> "kg"]],
       [code |-> "SG", currency |-> "SGD", locale |-> << "en", "SG" >>,
        timezone |-> "Asia/Singapore", measurementSystem |-> "metric",
        constructionUnits |-> [area |-> "m2", volume |-> "m3", length |-> "m", weight |-> "kg"]],
       [code |-> "KR", currency |-> "KRW", locale |-> << "en", "KR" >>,
        timezone |-> "Asia/Seoul", measurementSystem |-> "metric",
        constructionUnits |-> [area |-> "m2", volume |-> "m3", length |-> "m", weight |-> "kg"]],
       [code |-> "AE", currency |-> "AED", locale |-> << "en", "AE" >>,
        timezone |-> "Asia/Dubai", measurementSystem |-> "metric",
        constructionUnits |-> [area |-> "m2", volume |-> "m3", length |-> "m", weight |-> "kg"]],
       [code |-> "SA", currency |-> "SAR", locale |-> << "en", "SA" >>,
        timezone |-> "Asia/Riyadh", measurementSystem |-> "metric",
        constructionUnits |-> [area |-> "m2", volume |-> "m3", length |-> "m", weight |-> "kg"]],
       [code |-> "ZA", currency |-> "ZAR", locale |-> << "en", "ZA" >>,
        timezone |-> "Africa/Johannesburg", measurementSystem |-> "metric",
        constructionUnits |-> [area |-> "m2", volume |-> "m3", length |-> "m", weight |-> "kg"]],
       [code |-> "BR", currency |-> "BRL", locale |-> << "en", "BR" >>,
        timezone |-> "America/Sao_Paulo", measurementSystem |-> "metric",
        constructionUnits |-> [area |-> "m2", volume |-> "m3", length |-> "m", weight |-> "kg"]],
       [code |-> "AR", currency |-> "ARS", locale |-> << "en", "AR" >>,
        timezone |-> "America/Argentina/Buenos_Aires", measurementSystem |-> "metric",
        constructionUnits |-> [area |-> "m2", volume |-> "m3", length |-> "m", weight |-> "kg"]],
       [code |-> "CL", currency |-> "CLP", locale |-> << "en", "CL" >>,
        timezone |-> "America/Santiago", measurementSystem |-> "metric",
        constructionUnits |-> [area |-> "m2", volume |-> "m3", length |-> "m", weight |-> "kg"]] >>

\* What COUNTRIES.find returns when no country passes the test.
Undefined == [code |-> "undefined"]

\* The first country among those at the positions hits, or undefined.
First(hits) ==
    IF hits = {} THEN Undefined
    ELSE COUNTRIES[CHOOSE i \in hits : \A j \in hits : i <= j]

\* COUNTRIES.find(c => c[field] === value)
FindBy(field, value) == First({ i \in DOMAIN COUNTRIES : COUNTRIES[i][field] = value })

\* COUNTRIES.find(c => c.locale.startsWith(langCode)): langCode is a whole
\* language subtag, which a locale starts with when it is its first subtag.
FindByLanguage(langCode) ==
    First({ i \in DOMAIN COUNTRIES : COUNTRIES[i].locale[1] = langCode })

CountryCodes == { COUNTRIES[i].code : i \in DOMAIN COUNTRIES }

\* navigator.language || 'en-US' (line 367); no language is << >>.
UserLocale(nav) == IF nav.language = << >> THEN << "en", "US" >> ELSE nav.language

\* detectUserCountry that tries the time zone before the locale.
detectUserCountryTimezoneFirst(nav) ==
    LET userLocale == UserLocale(nav)
        byZone     == FindBy("timezone", nav.timeZone)
        byLocale   == FindBy("locale", userLocale)
        byLanguage == FindByLanguage(userLocale[1])
    IN  IF byZone # Undefined THEN byZone
        ELSE IF byLocale # Undefined THEN byLocale
        ELSE IF byLanguage # Undefined THEN byLanguage
        ELSE FindBy("code", "US")

\* Lines 365-386. langCode is the first subtag of the locale.
detectUserCountry(nav) ==
    LET userLocale == UserLocale(nav)
        byLocale   == FindBy("locale", userLocale)
        byZone     == FindBy("timezone", nav.timeZone)
        langCode   == userLocale[1]
        byLanguage == FindByLanguage(langCode)
    IN  IF byLocale # Undefined THEN byLocale
        ELSE IF byZone # Undefined THEN byZone
        ELSE IF byLanguage # Undefined THEN byLanguage
        ELSE FindBy("code", "US")

\* The browsers the service is built in: locale and time zone of one
\* country, of two countries, a locale of no country with a time zone of
\* one, an English locale of no country, neither, and no language at all.
Navigators ==
    { [language |-> << "en", "US" >>, timeZone |-> "America/New_York"],
      [language |-> << "en", "GB" >>, timeZone |-> "Europe/Paris"],
      [language |-> << "fr", "FR" >>, timeZone |-> "Europe/Paris"],
      [language |-> << "en", "IE" >>, timeZone |-> "Europe/Dublin"],
      [language |-> << "de", "AT" >>, timeZone |-> "Europe/Vienna"],
      [language |-> << >>, timeZone |-> "Asia/Tokyo"] }

\* What localStorage holds under 'selectedCountry' when the page loads:
\* nothing, a code of COUNTRIES, or a string that is no such code.
SavedCountries == {"null", "XX"} \cup CountryCodes

\* EXCHANGE_RATES without the currency of Chile.
ExchangeRatesWithoutCLP ==
    [ USD |-> Rat(1, 1), EUR |-> Rat(85, 100), GBP |-> Rat(73, 100),
      JPY |-> Rat(110, 1), CAD |-> Rat(125, 100), AUD |-> Rat(135, 100),
      CHF |-> Rat(92, 100), CNY |-> Rat(645, 100), INR |-> Rat(745, 10),
      BRL |-> Rat(52, 10), MXN |-> Rat(201, 10), KRW |-> Rat(1180, 1),
      SGD |-> Rat(135, 100), NZD |-> Rat(142, 100), SEK |-> Rat(86, 10),
      NOK |-> Rat(88, 10), AED |-> Rat(367, 100), SAR |-> Rat(375, 100),
      ZAR |-> Rat(148, 10), ARS |-> Rat(985, 10) ]

\* Lines 333-355.
EXCHANGE_RATES ==
    [ USD |-> Rat(1, 1), EUR |-> Rat(85, 100), GBP |-> Rat(73, 100),
      JPY |-> Rat(110, 1), CAD |-> Rat(125, 100), AUD |-> Rat(135, 100),
      CHF |-> Rat(92, 100), CNY |-> Rat(645, 100), INR |-> Rat(745, 10),
      BRL |-> Rat(52, 10), MXN |-> Rat(201, 10), KRW |-> Rat(1180, 1),
      SGD |-> Rat(135, 100), NZD |-> Rat(142, 100), SEK |-> Rat(86, 10),
      NOK |-> Rat(88, 10), AED |-> Rat(367, 100), SAR |-> Rat(375, 100),
      ZAR |-> Rat(148, 10), ARS |-> Rat(985, 10), CLP |-> Rat(800, 1) ]

\* EXCHANGE_RATES[currency] || 1, with whether the default was taken.
RateOrOne(currency) ==
    IF currency \in DOMAIN EXCHANGE_RATES /\ EXCHANGE_RATES[currency].n # 0
    THEN [rate |-> EXCHANGE_RATES[currency], defaulted |-> {}]
    ELSE [rate |-> Rat(1, 1), defaulted |-> {currency}]

\* convertCurrency that takes every amount to be in the base currency.
convertCurrencyFromBase(amount, fromCurrency, toCurrency) ==
    IF fromCurrency = toCurrency
    THEN [value |-> amount, ops |-> 0, defaulted |-> {}]
    ELSE LET toRate == RateOrOne(toCurrency)
         IN  [value |-> RMul(amount, toRate.rate), ops |-> 1,
              defaulted |-> toRate.defaulted]

\* convertCurrency without the test of line 437.
convertCurrencyAlwaysComputes(amount, fromCurrency, toCurrency) ==
    LET fromRate == RateOrOne(fromCurrency)
        toRate   == RateOrOne(toCurrency)
        usdAmount == RDiv(amount, fromRate.rate)
    IN  [value |-> RMul(usdAmount, toRate.rate), ops |-> 2,
         defaulted |-> fromRate.defaulted \cup toRate.defaulted]

\* Lines 436-445. value is the number returned; ops counts the divisions
\* and multiplications performed and defaulted holds the currencies whose
\* rate was replaced by 1.
convertCurrency(amount, fromCurrency, toCurrency) ==
    IF fromCurrency = toCurrency
    THEN [value |-> amount, ops |-> 0, defaulted |-> {}]
    ELSE LET fromRate == RateOrOne(fromCurrency)
             toRate   == RateOrOne(toCurrency)
             usdAmount == RDiv(amount, fromRate.rate)
         IN  [value |-> RMul(usdAmount, toRate.rate), ops |-> 2,
              defaulted |-> fromRate.defaulted \cup toRate.defaulted]

\* value * 10^digits rounded to the nearest integer, halves upwards: the
\* digits Intl.NumberFormat prints for a value that is not negative.
RoundToDigits(value, digits) ==
    LET scale == IF digits = 0 THEN 1 ELSE 100
        whole == value.n \div value.d
        rest  == value.n % value.d
    IN  whole * scale + ((2 * rest * scale + value.d) \div (2 * value.d))

\* Lines 409-419, for a currency code Intl.NumberFormat accepts:
\* targetCurrency is a code or "undefined". The string returned is given by
\* its currency, the number of fraction digits and the digits printed (the
\* amount in units of 10^-fractionDigits).
formatCurrency(country, amount, targetCurrency) ==
    LET currency == IF targetCurrency # "undefined" THEN targetCurrency
                    ELSE country.currency
        converted == convertCurrency(amount, "USD", currency)
        fractionDigits == IF currency \in {"JPY", "KRW", "CLP"} THEN 0 ELSE 2
    IN  [currency |-> currency, locale |-> country.locale,
         fractionDigits |-> fractionDigits,
         digits |-> RoundToDigits(converted.value, fractionDigits),
         defaulted |-> converted.defaulted]

\* The amounts the functions are called with.
Amounts == { Rat(0, 1), Rat(1, 100), Rat(1000, 1), Rat(2599, 100) }

\* The currency codes a caller passes: the listed ones and one that is not.
CurrencyCodes == DOMAIN EXCHANGE_RATES \cup {"XXX"}

\* Lines 463-479, with m2 and m3 written for the units with a superscript.
conversions ==
    ( "m2"    :> ( "sq ft" :> Rat(10764, 1000) @@ "sq m" :> Rat(1, 1) ) ) @@
    ( "sq ft" :> ( "m2" :> Rat(929, 10000) @@ "sq ft" :> Rat(1, 1) ) ) @@
    ( "m3"    :> ( "cu ft" :> Rat(35314, 1000) @@ "cu m" :> Rat(1, 1) ) ) @@
    ( "cu ft" :> ( "m3" :> Rat(283, 10000) @@ "cu ft" :> Rat(1, 1) ) ) @@
    ( "m"     :> ( "ft" :> Rat(3281, 1000) @@ "m" :> Rat(1, 1) ) ) @@
    ( "ft"    :> ( "m" :> Rat(305, 1000) @@ "ft" :> Rat(1, 1) ) ) @@
    ( "kg"    :> ( "lbs" :> Rat(2205, 1000) @@ "kg" :> Rat(1, 1) ) ) @@
    ( "lbs"   :> ( "kg" :> Rat(454, 1000) @@ "lbs" :> Rat(1, 1) ) )

\* conversions[fromUnit]?.[toUnit] is defined and not 0.
HasConversion(fromUnit, toUnit) ==
    /\ fromUnit \in DOMAIN conversions
    /\ toUnit \in DOMAIN conversions[fromUnit]
    /\ conversions[fromUnit][toUnit].n # 0

\* convertUnits that only converts away from the metric units.
convertUnitsFromMetricOnly(value, fromUnit, toUnit) ==
    IF fromUnit = toUnit THEN value
    ELSE IF fromUnit \in {"m2", "m3", "m", "kg"} /\ HasConversion(fromUnit, toUnit)
         THEN RMul(value, conversions[fromUnit][toUnit])
         ELSE value

\* Lines 461-485.
convertUnits(value, fromUnit, toUnit) ==
    IF fromUnit = toUnit THEN value
    ELSE IF HasConversion(fromUnit, toUnit)
         THEN RMul(value, conversions[fromUnit][toUnit])
         ELSE value

\* The quantities convertUnits is called with.
Quantities == { Rat(0, 1), Rat(1, 1), Rat(25, 2), Rat(1000, 1) }

\* The units a caller passes: those of the table and one that is not.
Units == { "m2", "sq ft", "sq m", "m3", "cu ft", "cu m", "m", "ft", "kg", "lbs", "each" }

\* Lines 505-521 (the entry of IN is added with :>, IN being a reserved word).
factors ==
    [ US |->
        [ labor |-> Rat(1, 1), materials |-> Rat(1, 1),
          equipment |-> Rat(1, 1), structural |-> Rat(1, 1),
          civil |-> Rat(1, 1), electrical |-> Rat(1, 1),
          plumbing |-> Rat(1, 1), finishing |-> Rat(1, 1),
          hvac |-> Rat(1, 1) ],
      GB |->
        [ labor |-> Rat(12, 10), materials |-> Rat(11, 10),
          equipment |-> Rat(115, 100), structural |-> Rat(11, 10),
          civil |-> Rat(11, 10), electrical |-> Rat(115, 100),
          plumbing |-> Rat(12, 10), finishing |-> Rat(11, 10),
          hvac |-> Rat(115, 100) ],
      DE |->
        [ labor |-> Rat(13, 10), materials |-> Rat(12, 10),
          equipment |-> Rat(125, 100), structural |-> Rat(12, 10),
          civil |-> Rat(12, 10), electrical |-> Rat(125, 100),
          plumbing |-> Rat(13, 10), finishing |-> Rat(12, 10),
          hvac |-> Rat(125, 100) ],
      FR |->
        [ labor |-> Rat(125, 100), materials |-> Rat(115, 100),
          equipment |-> Rat(12, 10), structural |-> Rat(115, 100),
          civil |-> Rat(115, 100), electrical |-> Rat(12, 10),
          plumbing |-> Rat(125, 100), finishing |-> Rat(115, 100),
          hvac |-> Rat(12, 10) ],
      JP |->
        [ labor |-> Rat(15, 10), materials |-> Rat(14, 10),
          equipment |-> Rat(13, 10), structural |-> Rat(14, 10),
          civil |-> Rat(14, 10), electrical |-> Rat(13, 10),
          plumbing |-> Rat(15, 10), finishing |-> Rat(14, 10),
          hvac |-> Rat(13, 10) ],
      CN |->
        [ labor |-> Rat(4, 10), materials |-> Rat(8, 10),
          equipment |-> Rat(9, 10), structural |-> Rat(8, 10),
          civil |-> Rat(7, 10), electrical |-> Rat(9, 10),
          plumbing |-> Rat(8, 10), finishing |-> Rat(6, 10),
          hvac |-> Rat(9, 10) ],
      BR |->
        [ labor |-> Rat(5, 10), materials |-> Rat(9, 10),
          equipment |-> Rat(85, 100), structural |-> Rat(9, 10),
          civil |-> Rat(8, 10), electrical |-> Rat(85, 100),
          plumbing |-> Rat(9, 10), finishing |-> Rat(7, 10),
          hvac |-> Rat(85, 100) ],
      MX |->
        [ labor |-> Rat(4, 10), materials |-> Rat(8, 10),
          equipment |-> Rat(75, 100), structural |-> Rat(8, 10),
          civil |-> Rat(7, 10), electrical |-> Rat(75, 100),
          plumbing |-> Rat(8, 10), finishing |-> Rat(6, 10),
          hvac |-> Rat(75, 100) ],
      AE |->
        [ labor |-> Rat(6, 10), materials |-> Rat(11, 10),
          equipment |-> Rat(1, 1), structural |-> Rat(11, 10),
          civil |-> Rat(1, 1), electrical |-> Rat(1, 1),
          plumbing |-> Rat(11, 10), finishing |-> Rat(9, 10),
          hvac |-> Rat(1, 1) ],
      AU |->
        [ labor |-> Rat(14, 10), materials |-> Rat(13, 10),
          equipment |-> Rat(12, 10), structural |-> Rat(13, 10),
          civil |-> Rat(13, 10), electrical |-> Rat(12, 10),
          plumbing |-> Rat(14, 10), finishing |-> Rat(13, 10),
          hvac |-> Rat(12, 10) ],
      CA |->
        [ labor |-> Rat(11, 10), materials |-> Rat(105, 100),
          equipment |-> Rat(11, 10), structural |-> Rat(105, 100),
          civil |-> Rat(105, 100), electrical |-> Rat(11, 10),
          plumbing |-> Rat(11, 10), finishing |-> Rat(105, 100),
          hvac |-> Rat(11, 10) ],
      CH |->
        [ labor |-> Rat(18, 10), materials |-> Rat(15, 10),
          equipment |-> Rat(14, 10), structural |-> Rat(15, 10),
          civil |-> Rat(15, 10), electrical |-> Rat(14, 10),
          plumbing |-> Rat(18, 10), finishing |-> Rat(15, 10),
          hvac |-> Rat(14, 10) ],
      NO |->
        [ labor |-> Rat(16, 10), materials |-> Rat(13, 10),
          equipment |-> Rat(13, 10), structural |-> Rat(13, 10),
          civil |-> Rat(13, 10), electrical |-> Rat(13, 10),
          plumbing |-> Rat(16, 10), finishing |-> Rat(13, 10),
          hvac |-> Rat(13, 10) ],
      SE |->
        [ labor |-> Rat(14, 10), materials |-> Rat(12, 10),
          equipment |-> Rat(12, 10), structural |-> Rat(12, 10),
          civil |-> Rat(12, 10), electrical |-> Rat(12, 10),
          plumbing |-> Rat(14, 10), finishing |-> Rat(12, 10),
          hvac |-> Rat(12, 10) ] ] @@
    ( "IN" :>
        [ labor |-> Rat(3, 10), materials |-> Rat(7, 10),
          equipment |-> Rat(8, 10), structural |-> Rat(7, 10),
          civil |-> Rat(6, 10), electrical |-> Rat(8, 10),
          plumbing |-> Rat(7, 10), finishing |-> Rat(5, 10),
          hvac |-> Rat(8, 10) ] )

\* Lines 503-524: factors[this.currentCountry.code] || factors['US'].
getRegionalCostFactors(country) ==
    IF country.code \in DOMAIN factors THEN factors[country.code] ELSE factors["US"]

\* item.category.toLowerCase(), on the categories of the stored items.
toLowerCase(category) ==
    CASE category = "Structural" -> "structural"
      [] category = "Electrical" -> "electrical"
      [] category = "Plumbing" -> "plumbing"
      [] category = "General" -> "general"
      [] OTHER -> category

\* Mutant of convertUnitsForDisplay: a converted item's rate is scaled by
\* the same factor as its quantity instead of the reciprocal one.
convertUnitsForDisplayRateScaledAlike(item, country) ==
    LET localUnits == country.constructionUnits
        measurementSystem == country.measurementSystem
        costFactors == getRegionalCostFactors(country)
        category == toLowerCase(item.category)
        categoryFactor == IF category \in DOMAIN costFactors /\ costFactors[category].n # 0
                          THEN costFactors[category]
                          ELSE costFactors.materials
        factoredRate == RMul(item.rate, categoryFactor)
    IN  IF measurementSystem = "metric" /\ item.unit = "sq ft"
        THEN LET displayQuantity == convertUnits(item.quantity, "sq ft", "m2")
                 displayRate == RMul(factoredRate, convertUnits(Rat(1, 1), "sq ft", "m2"))
             IN  [item EXCEPT !.quantity = displayQuantity, !.unit = localUnits.area,
                              !.rate = displayRate,
                              !.amount = RMul(displayQuantity, displayRate)]
        ELSE IF measurementSystem = "imperial" /\ item.unit = "m2"
        THEN LET displayQuantity == convertUnits(item.quantity, "m2", "sq ft")
                 displayRate == RMul(factoredRate, convertUnits(Rat(1, 1), "m2", "sq ft"))
             IN  [item EXCEPT !.quantity = displayQuantity, !.unit = localUnits.area,
                              !.rate = displayRate,
                              !.amount = RMul(displayQuantity, displayRate)]
        ELSE [item EXCEPT !.rate = factoredRate,
                          !.amount = RMul(item.quantity, factoredRate)]

\* EstimationResults.convertUnitsForDisplay (part_007 39-71) for the country
\* in use: the item as the results view shows it.
convertUnitsForDisplay(item, country) ==
    LET localUnits == country.constructionUnits
        measurementSystem == country.measurementSystem
        costFactors == getRegionalCostFactors(country)
        category == toLowerCase(item.category)
        categoryFactor == IF category \in DOMAIN costFactors /\ costFactors[category].n # 0
                          THEN costFactors[category]
                          ELSE costFactors.materials
        factoredRate == RMul(item.rate, categoryFactor)
    IN  IF measurementSystem = "metric" /\ item.unit = "sq ft"
        THEN LET displayQuantity == convertUnits(item.quantity, "sq ft", "m2")
                 displayRate == RDiv(factoredRate, convertUnits(Rat(1, 1), "sq ft", "m2"))
             IN  [item EXCEPT !.quantity = displayQuantity, !.unit = localUnits.area,
                              !.rate = displayRate,
                              !.amount = RMul(displayQuantity, displayRate)]
        ELSE IF measurementSystem = "imperial" /\ item.unit = "m2"
        THEN LET displayQuantity == convertUnits(item.quantity, "m2", "sq ft")
                 displayRate == RDiv(factoredRate, convertUnits(Rat(1, 1), "m2", "sq ft"))
             IN  [item EXCEPT !.quantity = displayQuantity, !.unit = localUnits.area,
                              !.rate = displayRate,
                              !.amount = RMul(displayQuantity, displayRate)]
        ELSE [item EXCEPT !.rate = factoredRate,
                          !.amount = RMul(item.quantity, factoredRate)]

\* The items of the results shown, as processProjectFiles returned them:
\* each with the canonical amount 1000 (USD). The last one has its rate
\* rounded to cents and its amount to units, as the fallback items have.
ResultItems ==
    << [category |-> "Structural", quantity |-> Rat(100, 1), unit |-> "sq ft",
        rate |-> Rat(10, 1), amount |-> Rat(1000, 1)],
       [category |-> "Electrical", quantity |-> Rat(250, 1), unit |-> "m2",
        rate |-> Rat(4, 1), amount |-> Rat(1000, 1)],
       [category |-> "General", quantity |-> Rat(40, 1), unit |-> "each",
        rate |-> Rat(25, 1), amount |-> Rat(1000, 1)],
       [category |-> "Plumbing", quantity |-> Rat(3, 1), unit |-> "each",
        rate |-> Rat(33333, 100), amount |-> Rat(1000, 1)] >>

\* ------------------------------------------------------------------ state
VARIABLES
    env,                \* import.meta.env: [keys: the providers with a key, provider: VITE_AI_PROVIDER]
    project,            \* the row of table projects
    project_files,      \* table project_files: file index -> processing_status
    estimation_items,   \* table estimation_items: the rows of the project
    pc,                 \* where the running processProjectFiles call stands
    fileIndex,          \* the position of the for loop over files
    useRealAI,          \* local useRealAI
    allAnalysisResults, \* local allAnalysisResults
    totalEstimatedCost, \* local totalEstimatedCost
    averageAccuracy,    \* local averageAccuracy: a sum in percent in the loop, tenths after it
    estimationItems,    \* local estimationItems
    elapsed,            \* seconds since startTime
    returned,           \* how the last call ended: its result, or the rejection
    analysis,           \* per file, how its analysis ended in this run
    fallbackCalls,      \* calls of generateFallbackEstimation in this run
    failedOps,          \* the Supabase calls that failed in this run
    runs,               \* calls of processProjectFiles so far
    faults              \* failed Supabase calls so far

\* ProcessingView (components/ProcessingView.tsx), mounted by App for one
\* project.
VARIABLES
    files,              \* state files: the rows getProjectFiles returned
    aiStatus,           \* state aiStatus: checking, configured or fallback
    error,              \* state error: '' or the message the error panel shows
    viewpc,             \* what the view waits for
    onCompleteArg       \* the results onComplete was called with

\* localizationService (part_003), the singleton built when the module loads.
VARIABLES
    navigator,          \* [language, timeZone]: navigator.language and the resolved time zone
    localStorage,       \* localStorage.getItem('selectedCountry'): a code, or "null"
    currentCountry,     \* field currentCountry, by its code
    lastCall            \* the last call of the service: its arguments and what it returned

\* FileUpload (components/FileUpload.tsx) and the uploadProjectFiles call it
\* makes; a file is known by its name.
VARIABLES
    uploadedFiles,      \* state uploadedFiles: the files the form holds
    projectName,        \* state projectName
    formError,          \* state error of the form: the messages it shows, '' is << >>
    storageStatus,      \* state storageStatus: checking, available or unavailable
    uploadpc,           \* where handleStartProcessing stands
    uploadArg,          \* argument files of the running uploadProjectFiles
    uploadIndex,        \* the position of its for loop
    uploadResult,       \* its local uploadedFiles
    projectsCreated,    \* projects createProject has made; the last is the current one
    storageObjects,     \* bucket project-files: [project, name]
    fileRows,           \* rows of project_files the form inserted: [project, name]
    analysed,           \* the rows a started processing run has read
    projects,           \* the status of each project createProject inserted
    offered,            \* every file given to validateAndAddFiles so far
    named               \* every file a message of the form has named so far

\* The AI provider behind aiProviderService.
VARIABLES
    responses           \* the texts the provider answers with

\* App (App.tsx) around a mounted ProcessingView.
VARIABLES
    renders,            \* renders of App since the ProcessingView mounted
    pendingCalls        \* processProjectFiles calls made whose first await has not resolved

tables == << project, project_files, estimation_items >>

locals == << fileIndex, useRealAI, allAnalysisResults, totalEstimatedCost,
             averageAccuracy, estimationItems, elapsed >>

observers == << analysis, fallbackCalls >>

view == << files, aiStatus, error, viewpc, onCompleteArg >>

\* What processProjectFiles does not touch.
service == << navigator, localStorage, currentCountry >>

localization == << service, lastCall >>

upload == << uploadedFiles, projectName, formError, storageStatus, uploadpc,
             uploadArg, uploadIndex, uploadResult, projectsCreated,
             storageObjects, fileRows, analysed, projects, offered, named >>

rerender == << renders, pendingCalls >>

notView == << localization, upload, responses, rerender >>

notPipeline == << view, localization, upload, responses, rerender >>

vars == << env, tables, pc, locals, returned, observers, failedOps, runs, faults,
           notPipeline >>

NoResult == [kind |-> "none"]

Files == DOMAIN project_files

\* A Supabase call returns { data, error } and never throws: op fails
\* (ok = FALSE) only while the budget of failures lasts.
Call(op, ok, failedBefore, faultsBefore) ==
    /\ ok \in BOOLEAN
    /\ ~ok => faultsBefore < MaxFaults
    /\ faults' = IF ok THEN faultsBefore ELSE faultsBefore + 1
    /\ failedOps' = IF ok THEN failedBefore ELSE failedBefore \cup {op}

\* The project as the upload left it: draft, its files pending, no call of
\* processProjectFiles yet.
InitPipeline ==
    /\ env \in Configurations
    /\ project = [status |-> "draft", total_cost |-> MZero, accuracy |-> 0,
                  processing_time |-> "null"]
    /\ \E n \in 1..MaxFiles : project_files = [f \in 1..n |-> "pending"]
    /\ estimation_items = << >>
    /\ pc = "idle"
    /\ fileIndex = 0
    /\ useRealAI = FALSE
    /\ allAnalysisResults = << >>
    /\ totalEstimatedCost = MZero
    /\ averageAccuracy = 0
    /\ estimationItems = << >>
    /\ elapsed = 0
    /\ returned = NoResult
    /\ analysis = [f \in Files |-> "none"]
    /\ fallbackCalls = 0
    /\ failedOps = {}
    /\ runs = 0
    /\ faults = 0

\* No ProcessingView is mounted.
ViewUnmounted ==
    /\ files = {}
    /\ aiStatus = "checking"
    /\ error = ""
    /\ viewpc = "unmounted"
    /\ onCompleteArg = NoResult

NoCall == [op |-> "none"]

\* The service as a browser with locale en-US in New York builds it, with
\* no country saved, and not called yet.
ServiceUnused ==
    /\ navigator = [language |-> << "en", "US" >>, timeZone |-> "America/New_York"]
    /\ localStorage = "null"
    /\ currentCountry = "US"
    /\ lastCall = NoCall

\* The upload form as it mounts: nothing chosen, nothing uploaded.
FormUnused ==
    /\ uploadedFiles = << >>
    /\ projectName = ""
    /\ formError = << >>
    /\ storageStatus = "checking"
    /\ uploadpc = "form"
    /\ uploadArg = << >>
    /\ uploadIndex = 0
    /\ uploadResult = << >>
    /\ projectsCreated = 0
    /\ storageObjects = {}
    /\ fileRows = {}
    /\ analysed = {}
    /\ projects = << >>
    /\ offered = {}
    /\ named = {}

\* The provider answers with one of the texts of Responses, and App has
\* not rendered again.
UsualProvider ==
    /\ responses = Responses
    /\ renders = 0
    /\ pendingCalls = 0

Init ==
    InitPipeline /\ ViewUnmounted /\ ServiceUnused /\ FormUnused /\ UsualProvider

\* ------------------------------------------------------ processProjectFiles
\* Lines 19-25: the call starts and writes status processing.
StartProcessing ==
    /\ pc \in {"idle", "done", "failed"}
    /\ runs < MaxRuns
    /\ runs' = runs + 1
    /\ \E ok \in BOOLEAN :
         /\ Call("start", ok, {}, faults)
         /\ project' = IF ok THEN [project EXCEPT !.status = "processing"] ELSE project
    /\ pc' = "select"
    /\ fileIndex' = 0
    /\ useRealAI' = FALSE
    /\ allAnalysisResults' = << >>
    /\ totalEstimatedCost' = MZero
    /\ averageAccuracy' = 0
    /\ estimationItems' = << >>
    /\ elapsed' = 0
    /\ returned' = NoResult
    /\ analysis' = [f \in Files |-> "none"]
    /\ fallbackCalls' = 0
    /\ UNCHANGED << env, project_files, estimation_items >>

\* Lines 27-54: the files are read; none (or a failed query, data = null)
\* throws 'No files found for processing'.
SelectFiles ==
    /\ pc = "select"
    /\ \E ok \in BOOLEAN :
         /\ Call("select", ok, failedOps, faults)
         /\ IF ok /\ Cardinality(Files) > 0
            THEN /\ pc' = "file"
                 /\ fileIndex' = 1
                 /\ useRealAI' = UseRealAI(env)
            ELSE /\ pc' = "catch"
                 /\ UNCHANGED << fileIndex, useRealAI >>
    /\ UNCHANGED << env, tables, allAnalysisResults, totalEstimatedCost,
                    averageAccuracy, estimationItems, elapsed, returned,
                    observers, runs >>

\* analyzeWithAI (part_002 40-65) on analyzeDocument (aiProviders 62-82):
\* the outcomes of one file's analysis. A provider that is not initialized
\* and a failed provider call both throw, and analyzeWithAI turns the throw
\* into document.error.
AnalysisOutcomes ==
    IF ProviderInitialized(env)
    THEN { [error |-> TRUE] } \cup
         { [error |-> FALSE, analysisResult |-> parseAIResponse(r)] : r \in responses }
    ELSE { [error |-> TRUE] }

\* Mutant of AnalyzeFile: a file whose analysis fails is collected with an
\* empty result of accuracy 0, so it is zero-scored, not left out.
AnalyzeFileZeroScored(failedBefore, faultsBefore) ==
    LET ZeroScored ==
          /\ allAnalysisResults' =
               Append(allAnalysisResults,
                      [identifiedItems |-> << >>, totalEstimatedCost |-> MZero,
                       accuracy |-> 0])
          /\ UNCHANGED << totalEstimatedCost, averageAccuracy >>
    IN  \E download \in {"data", "null", "throws"} :
          /\ Call("download", download # "throws", failedBefore, faultsBefore)
          /\ CASE download = "throws" ->
                    /\ pc' = "fileCatch"
                    /\ analysis' = [analysis EXCEPT ![fileIndex] = "thrown"]
                    /\ ZeroScored
               [] download = "null" ->
                    /\ pc' = "fileCompleted"
                    /\ analysis' = [analysis EXCEPT ![fileIndex] = "failed"]
                    /\ ZeroScored
               [] download = "data" ->
                    /\ pc' = "fileCompleted"
                    /\ \E extracted \in BOOLEAN :
                         IF ~extracted
                         THEN /\ analysis' = [analysis EXCEPT ![fileIndex] = "failed"]
                              /\ ZeroScored
                         ELSE \E analyzedDoc \in AnalysisOutcomes :
                                IF analyzedDoc.error
                                THEN /\ analysis' = [analysis EXCEPT ![fileIndex] = "failed"]
                                     /\ ZeroScored
                                ELSE /\ analysis' = [analysis EXCEPT ![fileIndex] = "ok"]
                                     /\ allAnalysisResults' =
                                          Append(allAnalysisResults, analyzedDoc.analysisResult)
                                     /\ totalEstimatedCost' =
                                          MAdd(totalEstimatedCost,
                                               analyzedDoc.analysisResult.totalEstimatedCost)
                                     /\ averageAccuracy' =
                                          averageAccuracy + analyzedDoc.analysisResult.accuracy

\* Lines 64-90: download, processFile, analyzeWithAI, and the collection
\* of the result. download: "data", "null" ({ data: null, error }, the
\* file is skipped) or "throws" (an error storage-js does not wrap and
\* rethrows, counted with the failed calls); extracted: processFile
\* returned no error.
AnalyzeFile(failedBefore, faultsBefore) ==
    \E download \in {"data", "null", "throws"} :
      /\ Call("download", download # "throws", failedBefore, faultsBefore)
      /\ CASE download = "throws" ->
                /\ pc' = "fileCatch"
                /\ analysis' = [analysis EXCEPT ![fileIndex] = "thrown"]
                /\ UNCHANGED << allAnalysisResults, totalEstimatedCost, averageAccuracy >>
           [] download = "null" ->
                /\ pc' = "fileCompleted"
                /\ analysis' = [analysis EXCEPT ![fileIndex] = "failed"]
                /\ UNCHANGED << allAnalysisResults, totalEstimatedCost, averageAccuracy >>
           [] download = "data" ->
                /\ pc' = "fileCompleted"
                /\ \E extracted \in BOOLEAN :
                     IF ~extracted
                     THEN /\ analysis' = [analysis EXCEPT ![fileIndex] = "failed"]
                          /\ UNCHANGED << allAnalysisResults, totalEstimatedCost,
                                          averageAccuracy >>
                     ELSE \E analyzedDoc \in AnalysisOutcomes :
                            IF analyzedDoc.error
                            THEN /\ analysis' = [analysis EXCEPT ![fileIndex] = "failed"]
                                 /\ UNCHANGED << allAnalysisResults, totalEstimatedCost,
                                                 averageAccuracy >>
                            ELSE /\ analysis' = [analysis EXCEPT ![fileIndex] = "ok"]
                                 /\ allAnalysisResults' =
                                      Append(allAnalysisResults, analyzedDoc.analysisResult)
                                 /\ totalEstimatedCost' =
                                      MAdd(totalEstimatedCost,
                                           analyzedDoc.analysisResult.totalEstimatedCost)
                                 /\ averageAccuracy' =
                                      averageAccuracy + analyzedDoc.analysisResult.accuracy

\* Lines 59-90: the file is marked processing and, with real AI, analysed.
FileProcess ==
    /\ pc = "file"
    /\ \E ok \in BOOLEAN :
         /\ ~ok => faults < MaxFaults
         /\ project_files' = IF ok
                             THEN [project_files EXCEPT ![fileIndex] = "processing"]
                             ELSE project_files
         /\ LET failedNow == IF ok THEN failedOps ELSE failedOps \cup {"fileProcessing"}
                faultsNow == IF ok THEN faults ELSE faults + 1
            IN  IF useRealAI
                THEN AnalyzeFile(failedNow, faultsNow)
                ELSE /\ pc' = "fileCompleted"
                     /\ failedOps' = failedNow
                     /\ faults' = faultsNow
                     /\ UNCHANGED << analysis, allAnalysisResults,
                                     totalEstimatedCost, averageAccuracy >>
    /\ UNCHANGED << env, project, estimation_items, fileIndex, useRealAI,
                    estimationItems, elapsed, returned, fallbackCalls, runs >>

\* The for loop moves to the next file, or leaves the loop.
NextFile ==
    /\ fileIndex' = fileIndex + 1
    /\ pc' = IF fileIndex + 1 \in Files THEN "file" ELSE "aggregate"

\* Lines 92-98: the file is marked completed, then the 1 s delay.
FileMarkCompleted ==
    /\ pc = "fileCompleted"
    /\ \E ok \in BOOLEAN :
         /\ Call("fileCompleted", ok, failedOps, faults)
         /\ project_files' = IF ok
                             THEN [project_files EXCEPT ![fileIndex] = "completed"]
                             ELSE project_files
    /\ elapsed' = elapsed + 1
    /\ NextFile
    /\ UNCHANGED << env, project, estimation_items, useRealAI, allAnalysisResults,
                    totalEstimatedCost, averageAccuracy, estimationItems, returned,
                    observers, runs >>

\* Lines 100-106: the catch of the file's try marks the file error.
FileCatch ==
    /\ pc = "fileCatch"
    /\ \E ok \in BOOLEAN :
         /\ Call("fileError", ok, failedOps, faults)
         /\ project_files' = IF ok
                             THEN [project_files EXCEPT ![fileIndex] = "error"]
                             ELSE project_files
    /\ NextFile
    /\ UNCHANGED << env, project, estimation_items, useRealAI, allAnalysisResults,
                    totalEstimatedCost, averageAccuracy, estimationItems, elapsed,
                    returned, observers, runs >>

\* Lines 109-153: the results are aggregated and the items inserted; a
\* failed insert (itemsError) is thrown.
InsertItems ==
    /\ pc = "aggregate"
    /\ \E seed \in Seeds :
         LET agg == Aggregate(useRealAI, allAnalysisResults, totalEstimatedCost,
                              averageAccuracy, seed)
         IN  /\ estimationItems' = agg.items
             /\ totalEstimatedCost' = agg.total
             /\ averageAccuracy' = agg.accuracy
             /\ fallbackCalls' = fallbackCalls + agg.fallback
             /\ \E ok \in BOOLEAN :
                  /\ Call("insert", ok, failedOps, faults)
                  /\ estimation_items' = IF ok THEN estimation_items \o agg.items
                                         ELSE estimation_items
                  /\ pc' = IF ok THEN "update" ELSE "catch"
    /\ UNCHANGED << env, project, project_files, fileIndex, useRealAI,
                    allAnalysisResults, elapsed, returned, analysis, runs >>

\* Lines 155-171: the project is written completed with the totals (the
\* error of this update is not looked at) and the result is returned.
UpdateProject ==
    /\ pc = "update"
    /\ \E ok \in BOOLEAN :
         /\ Call("update", ok, failedOps, faults)
         /\ project' = IF ok
                       THEN [status |-> "completed",
                             total_cost |-> totalEstimatedCost,
                             accuracy |-> averageAccuracy,
                             processing_time |-> ProcessingTime(elapsed)]
                       ELSE project
    /\ returned' = [kind |-> "resolved",
                    totalCost |-> totalEstimatedCost,
                    items |-> estimationItems,
                    accuracy |-> averageAccuracy,
                    processingTime |-> ProcessingTime(elapsed)]
    /\ pc' = "done"
    /\ UNCHANGED << env, project_files, estimation_items, locals, observers, runs >>

\* Lines 172-180: the outer catch writes status draft and rethrows.
CatchRevert ==
    /\ pc = "catch"
    /\ \E ok \in BOOLEAN :
         /\ Call("revert", ok, failedOps, faults)
         /\ project' = IF ok THEN [project EXCEPT !.status = "draft"] ELSE project
    /\ returned' = [kind |-> "rejected"]
    /\ pc' = "failed"
    /\ UNCHANGED << env, project_files, estimation_items, locals, observers, runs >>

Next ==
    \/ StartProcessing /\ UNCHANGED notPipeline
    \/ SelectFiles /\ UNCHANGED notPipeline
    \/ FileProcess /\ UNCHANGED notPipeline
    \/ FileMarkCompleted /\ UNCHANGED notPipeline
    \/ FileCatch /\ UNCHANGED notPipeline
    \/ InsertItems /\ UNCHANGED notPipeline
    \/ UpdateProject /\ UNCHANGED notPipeline
    \/ CatchRevert /\ UNCHANGED notPipeline

Spec == Init /\ [][Next]_vars

\* ----------------------------------------------------------- ProcessingView
\* What the view itself never writes: the environment, the tables and the
\* state of the processProjectFiles call.
pipeline == << env, tables, pc, locals, returned, observers, runs >>

\* App.handleFileUpload has mounted the view for the project: its state is
\* the useState defaults (lines 13-19) and the first effect (lines 28-44)
\* has called loadFiles, which awaits getProjectFiles.
InitView ==
    /\ InitPipeline
    /\ files = {}
    /\ aiStatus = "checking"
    /\ error = ""
    /\ viewpc = "loadFiles"
    /\ onCompleteArg = NoResult
    /\ ServiceUnused
    /\ FormUnused
    /\ UsualProvider

\* Lines 29-42 with getProjectFiles (fileUpload.ts 154-177): the select
\* returns the project's rows, or fails and getProjectFiles catches the
\* error and returns []; then aiStatus leaves checking.
LoadFiles ==
    /\ viewpc = "loadFiles"
    /\ \E ok \in BOOLEAN :
         /\ Call("getProjectFiles", ok, failedOps, faults)
         /\ files' = IF ok THEN Files ELSE {}
    /\ aiStatus' = IF getAvailableProviders(env) # {} THEN "configured" ELSE "fallback"
    /\ viewpc' = "effect"
    /\ UNCHANGED << error, onCompleteArg, pipeline >>
    /\ UNCHANGED notView

\* Lines 50-121, the effect on [projectId, files, onComplete, aiStatus],
\* when the guard of line 118 holds: startProcessing calls
\* processProjectFiles (line 96) and awaits it.
EffectStartProcessing ==
    /\ viewpc = "effect"
    /\ files # {} /\ aiStatus # "checking"
    /\ StartProcessing
    /\ viewpc' = "processing"
    /\ UNCHANGED << files, aiStatus, error, onCompleteArg >>
    /\ UNCHANGED notView

\* The same effect when the guard of line 118 fails: nothing is started,
\* no state is set and nothing is pending.
EffectSkips ==
    /\ viewpc = "effect"
    /\ ~(files # {} /\ aiStatus # "checking")
    /\ viewpc' = "waiting"
    /\ UNCHANGED << files, aiStatus, error, onCompleteArg, pipeline, failedOps, faults >>
    /\ UNCHANGED notView

\* The awaited processProjectFiles call runs.
AwaitProcessing ==
    /\ viewpc = "processing"
    /\ \/ SelectFiles
       \/ FileProcess
       \/ FileMarkCompleted
       \/ FileCatch
       \/ InsertItems
       \/ UpdateProject
       \/ CatchRevert
    /\ UNCHANGED << view, notView >>

\* Lines 98-109: the call resolved; onComplete is scheduled in 1000 ms.
ProcessingResolved ==
    /\ viewpc = "processing"
    /\ pc = "done"
    /\ viewpc' = "timeout"
    /\ UNCHANGED << files, aiStatus, error, onCompleteArg, pipeline, failedOps, faults >>
    /\ UNCHANGED notView

\* Lines 107-109: the timeout fires and calls onComplete(results).
OnCompleteTimeout ==
    /\ viewpc = "timeout"
    /\ onCompleteArg' = returned
    /\ viewpc' = "completed"
    /\ UNCHANGED << files, aiStatus, error, pipeline, failedOps, faults >>
    /\ UNCHANGED notView

\* Lines 111-115: the call rejected; the message is put in error, and
\* lines 123-139 render the panel with "Retry Processing".
ProcessingRejected ==
    /\ viewpc = "processing"
    /\ pc = "failed"
    /\ error' = "Processing failed"
    /\ viewpc' = "error"
    /\ UNCHANGED << files, aiStatus, onCompleteArg, pipeline, failedOps, faults >>
    /\ UNCHANGED notView

\* Every step the view takes without the user.
NextView ==
    \/ LoadFiles
    \/ EffectStartProcessing
    \/ EffectSkips
    \/ AwaitProcessing
    \/ ProcessingResolved
    \/ OnCompleteTimeout
    \/ ProcessingRejected

\* Every pending call returns and every scheduled callback runs: the steps
\* of the view are taken as long as one is possible.
SpecView == InitView /\ [][NextView]_vars /\ WF_vars(NextView)

\* ------------------------------------------- ProcessingView under re-renders
\* The ProcessingView is mounted: its hooks run on every render, also when
\* it shows the error panel (the return of line 123 comes after them).
ViewMounted == viewpc \in {"loadFiles", "processing", "timeout", "error", "waiting"}

\* A processProjectFiles call is between its first line and its return.
RunActive == pc \notin {"idle", "done", "failed"}

\* App renders again (a state of its hooks useAuth or useProjects changed,
\* App.tsx 15-16): handleProcessingComplete (30-33) is a new function, so
\* the effect of ProcessingView (50-121) runs again because onComplete is
\* among its dependencies, and when the guard of line 118 holds it calls
\* processProjectFiles once more.
AppRerenders ==
    /\ ViewMounted
    /\ renders < MaxRenders
    /\ renders' = renders + 1
    /\ pendingCalls' = IF files # {} /\ aiStatus # "checking"
                       THEN pendingCalls + 1
                       ELSE pendingCalls
    /\ UNCHANGED << view, pipeline, failedOps, faults, localization, upload,
                    responses >>

\* The first await of a call made by a re-run effect resolves (lines
\* 19-25), here after the call before it has settled and the view has
\* handed on its result.
PendingCallRuns ==
    /\ pendingCalls > 0
    /\ viewpc \notin {"processing", "timeout"}
    /\ StartProcessing
    /\ pendingCalls' = pendingCalls - 1
    /\ UNCHANGED << renders, view, localization, upload, responses >>

\* A call made by a re-run effect runs on.
BackgroundProcessing ==
    /\ viewpc # "processing"
    /\ \/ SelectFiles
       \/ FileProcess
       \/ FileMarkCompleted
       \/ FileCatch
       \/ InsertItems
       \/ UpdateProject
       \/ CatchRevert
    /\ UNCHANGED << view, notView >>

\* Lines 98-115 for a call made by a re-run effect: its result goes to
\* onComplete (the 1000 ms timer included), its rejection to error.
BackgroundSettled ==
    /\ runs > 1
    /\ viewpc # "processing"
    /\ \/ /\ pc = "done" /\ onCompleteArg # returned
          /\ onCompleteArg' = returned
          /\ UNCHANGED error
       \/ /\ pc = "failed" /\ error = ""
          /\ error' = "Processing failed"
          /\ UNCHANGED onCompleteArg
    /\ UNCHANGED << files, aiStatus, viewpc, pipeline, failedOps, faults >>
    /\ UNCHANGED notView

NextRerender ==
    \/ LoadFiles
    \/ EffectStartProcessing
    \/ EffectSkips
    \/ AwaitProcessing
    \/ ProcessingResolved
    \/ OnCompleteTimeout
    \/ ProcessingRejected
    \/ AppRerenders
    \/ PendingCallRuns
    \/ BackgroundProcessing
    \/ BackgroundSettled

SpecRerender == InitView /\ [][NextRerender]_vars

\* ---------------------------------------------------- the conversion functions
\* One project, no provider configured, and nothing running: the state in
\* which the functions of the service are called on their own.
OneIdleProject ==
    /\ InitPipeline /\ env.keys = {} /\ Files = {1}
    /\ ViewUnmounted /\ FormUnused /\ UsualProvider

\* The calls made: the function and its arguments.
ConverterCalls ==
    { [op |-> "convertCurrency", returned |-> FALSE, amount |-> amount,
       fromCurrency |-> fromCurrency, toCurrency |-> toCurrency] :
         amount \in Amounts, fromCurrency \in CurrencyCodes, toCurrency \in CurrencyCodes }
    \cup
    { [op |-> "convertUnits", returned |-> FALSE, value |-> value,
       fromUnit |-> fromUnit, toUnit |-> toUnit] :
         value \in Quantities, fromUnit \in Units, toUnit \in Units }

\* A caller is about to make one of the calls.
InitConverter ==
    /\ OneIdleProject
    /\ navigator = [language |-> << "en", "US" >>, timeZone |-> "America/New_York"]
    /\ localStorage = "null"
    /\ currentCountry = "US"
    /\ lastCall \in ConverterCalls

\* convertCurrency(amount, from, to) returns, and the result is converted
\* back.
ConvertCurrency ==
    /\ lastCall.op = "convertCurrency" /\ ~lastCall.returned
    /\ LET there == convertCurrency(lastCall.amount, lastCall.fromCurrency,
                                    lastCall.toCurrency)
       IN  lastCall' = [op |-> "convertCurrency", returned |-> TRUE,
                        amount |-> lastCall.amount,
                        fromCurrency |-> lastCall.fromCurrency,
                        toCurrency |-> lastCall.toCurrency,
                        result |-> there,
                        back |-> convertCurrency(there.value, lastCall.toCurrency,
                                                 lastCall.fromCurrency)]
    /\ UNCHANGED << pipeline, failedOps, faults, view, upload, responses, rerender,
                    service >>

\* convertUnits(value, from, to) returns, and the result is converted back.
ConvertUnits ==
    /\ lastCall.op = "convertUnits" /\ ~lastCall.returned
    /\ LET there == convertUnits(lastCall.value, lastCall.fromUnit, lastCall.toUnit)
       IN  lastCall' = [op |-> "convertUnits", returned |-> TRUE,
                        value |-> lastCall.value,
                        fromUnit |-> lastCall.fromUnit,
                        toUnit |-> lastCall.toUnit,
                        result |-> there,
                        back |-> convertUnits(there, lastCall.toUnit, lastCall.fromUnit)]
    /\ UNCHANGED << pipeline, failedOps, faults, view, upload, responses, rerender,
                    service >>

NextConverter ==
    \/ ConvertCurrency
    \/ ConvertUnits

SpecConverter == InitConverter /\ [][NextConverter]_vars

\* -------------------------------------------------------- the country in use
\* The page has loaded: the constructor (lines 361-363) has detected the
\* country, and localStorage holds what an earlier visit left.
InitLocalization ==
    /\ OneIdleProject
    /\ navigator \in Navigators
    /\ localStorage \in SavedCountries
    /\ currentCountry = detectUserCountry(navigator).code
    /\ lastCall = NoCall

\* Lines 388-395: setCountry(countryCode), from the country selector or
\* with any other string.
SetCountry ==
    /\ \E countryCode \in CountryCodes \cup {"XX"} :
         LET country == FindBy("code", countryCode)
         IN  /\ IF country # Undefined
                THEN /\ currentCountry' = country.code
                     /\ localStorage' = countryCode
                ELSE UNCHANGED << currentCountry, localStorage >>
             /\ lastCall' = [op |-> "setCountry", returned |-> TRUE,
                              countryCode |-> countryCode]
    /\ UNCHANGED << pipeline, failedOps, faults, view, upload, responses, rerender,
                    navigator >>

\* Lines 397-407: getCurrentCountry().
GetCurrentCountry ==
    /\ LET savedCountry == localStorage
           country == IF savedCountry # "null"
                      THEN FindBy("code", savedCountry)
                      ELSE Undefined
       IN  /\ currentCountry' = IF country # Undefined THEN country.code
                                 ELSE currentCountry
           /\ lastCall' = [op |-> "getCurrentCountry", returned |-> TRUE,
                            result |-> currentCountry']
    /\ UNCHANGED << pipeline, failedOps, faults, view, upload, responses, rerender,
                    navigator, localStorage >>

\* Lines 409-425: formatCurrency(amount) as the views call it, and
\* formatCurrency(amount, 'USD') (EstimationResults, part_007 137).
FormatCurrency ==
    /\ \E amount \in Amounts, targetCurrency \in {"undefined", "USD"} :
         lastCall' = [op |-> "formatCurrency", returned |-> TRUE,
                      amount |-> amount, targetCurrency |-> targetCurrency,
                      result |-> formatCurrency(FindBy("code", currentCountry),
                                                amount, targetCurrency)]
    /\ UNCHANGED << pipeline, failedOps, faults, view, upload, responses, rerender,
                    service >>

\* part_007 75: localizedItems.reduce((sum, item) => sum + item.amount, 0).
RECURSIVE reduceAmounts(_, _)
reduceAmounts(localizedItems, k) ==
    IF k = 0 THEN Rat(0, 1)
    ELSE RAdd(reduceAmounts(localizedItems, k - 1), localizedItems[k].amount)

localizedTotalCost(localizedItems) == reduceAmounts(localizedItems, Len(localizedItems))

\* EstimationResults (part_007 73-75 and 296-297) for a country: every item
\* is localized and its amount formatted.
Rendered(country) ==
    LET localizedItems == [i \in DOMAIN ResultItems |->
                             convertUnitsForDisplay(ResultItems[i], country)]
    IN  [items |-> ResultItems,
         localizedItems |-> localizedItems,
         amounts |-> [i \in DOMAIN ResultItems |->
                        formatCurrency(country, localizedItems[i].amount, "undefined")]]

\* What the results view shows, by the country in use.
RenderedBy == [code \in CountryCodes |-> Rendered(FindBy("code", code))]

\* The results view renders: the items are localized, then their amounts
\* are summed to the total of the header (part_007 75 and 133).
RenderResults ==
    /\ \E shown \in {RenderedBy[currentCountry]} :
         lastCall' = [op |-> "renderResults", returned |-> TRUE,
                      shown |-> shown,
                      localizedTotalCost |-> localizedTotalCost(shown.localizedItems)]
    /\ UNCHANGED << pipeline, failedOps, faults, view, upload, responses, rerender,
                    service >>

NextLocalization ==
    \/ SetCountry
    \/ GetCurrentCountry
    \/ FormatCurrency
    \/ RenderResults

SpecLocalization == InitLocalization /\ [][NextLocalization]_vars

\* ------------------------------------------------------------ the upload form
\* FileUpload.tsx 78 and fileUpload.ts 36: the 50MB cap, in bytes.
maxSize == 50 * 1024 * 1024

\* FileUpload.tsx 85-95.
allowedTypes ==
    { "application/pdf", "image/jpeg", "image/jpg", "image/png", "image/gif",
      "application/vnd.openxmlformats-officedocument.wordprocessingml.document",
      "application/vnd.openxmlformats-officedocument.spreadsheetml.sheet",
      "text/plain", "text/csv" }

\* FileUpload.tsx 97, each without its leading dot.
allowedExtensions ==
    { "pdf", "jpg", "jpeg", "png", "gif", "dwg", "dxf", "docx", "xlsx", "txt",
      "csv" }

\* The File objects a user can choose, by name: size in bytes, MIME type as
\* the browser reports it ('' when it knows none), and name.split('.').
FileObjects ==
    ("plan" :> [size |-> 1024, type |-> "application/pdf",
                parts |-> << "plan" >>])
    @@ ("site.DWG" :> [size |-> 2048, type |-> "",
                       parts |-> << "site", "DWG" >>])
    @@ ("empty.pdf" :> [size |-> 0, type |-> "application/pdf",
                        parts |-> << "empty", "pdf" >>])
    @@ ("huge.pdf" :> [size |-> maxSize + 1, type |-> "application/pdf",
                       parts |-> << "huge", "pdf" >>])
    @@ ("tool.exe" :> [size |-> 1024, type |-> "application/x-msdownload",
                       parts |-> << "tool", "exe" >>])

FileNames == DOMAIN FileObjects

\* String.toLowerCase on the extensions in use.
extToLowerCase(ext) ==
    CASE ext = "DWG" -> "dwg"
      [] OTHER -> ext

\* FileUpload.tsx 98, without the leading dot: the text after the last dot
\* of the name, the whole name when it has none.
fileExtension(name) ==
    LET parts == FileObjects[name].parts
    IN  extToLowerCase(parts[Len(parts)])

NoMessage == [text |-> "", file |-> "none"]

\* The body of the forEach of validateAndAddFiles (76-106): the message
\* pushed on errors for this file, NoMessage when it goes to validFiles.
validationError(name) ==
    LET file == FileObjects[name]
    IN  IF file.size > maxSize
        THEN [text |-> "is too large (max 50MB)", file |-> name]
        ELSE IF file.type \notin allowedTypes
                /\ fileExtension(name) \notin allowedExtensions
             THEN [text |-> "is not a supported file type", file |-> name]
             ELSE NoMessage

IsValidFile(name) == validationError(name) = NoMessage

IsRejectedFile(name) == ~IsValidFile(name)

\* The messages of the files of a list that did not pass, in order.
validationErrors(list) ==
    LET bad == SelectSeq(list, IsRejectedFile)
    IN  [i \in 1..Len(bad) |-> validationError(bad[i])]

\* What one drop or one file dialog can hand over: one or two files.
Drops ==
    { << a >> : a \in FileNames }
    \cup { pair \in [1..2 -> FileNames] : pair[1] # pair[2] }

Range(list) == { list[i] : i \in 1..Len(list) }

\* The mount effect (32-44): validateStorageBucket answers.
CheckStorage ==
    /\ storageStatus = "checking"
    /\ storageStatus' \in {"available", "unavailable"}
    /\ UNCHANGED << uploadedFiles, projectName, formError, uploadpc, uploadArg,
                    uploadIndex, uploadResult, projectsCreated, storageObjects,
                    fileRows, analysed, projects, offered, named >>

\* The project name field is filled in.
SetProjectName ==
    /\ uploadpc = "form"
    /\ projectName = ""
    /\ projectName' = "Tower"
    /\ UNCHANGED << uploadedFiles, formError, storageStatus, uploadpc, uploadArg,
                    uploadIndex, uploadResult, projectsCreated, storageObjects,
                    fileRows, analysed, projects, offered, named >>

\* validateAndAddFiles (72-115), from handleDrop or handleFileInput: the
\* files that pass are appended, the messages of the others replace the
\* error shown, and no message clears it.
ValidateAndAddFiles ==
    /\ uploadpc \in {"form", "uploading"}
    /\ \E dropped \in Drops :
         LET validFiles == SelectSeq(dropped, IsValidFile)
             errors == validationErrors(dropped)
         IN  /\ Cardinality(offered \cup Range(dropped)) <= MaxOffered
             /\ Len(uploadedFiles) + Len(validFiles) <= MaxSelected
             /\ uploadedFiles' = uploadedFiles \o validFiles
             /\ formError' = errors
             /\ offered' = offered \cup Range(dropped)
             /\ named' = named \cup { errors[i].file : i \in 1..Len(errors) }
    /\ UNCHANGED << projectName, storageStatus, uploadpc, uploadArg, uploadIndex,
                    uploadResult, projectsCreated, storageObjects, fileRows,
                    analysed, projects >>

\* removeFile (117-119); its button is disabled while uploading (382).
RemoveFile ==
    /\ uploadpc = "form"
    /\ \E index \in 1..Len(uploadedFiles) :
         uploadedFiles' = [i \in 1..(Len(uploadedFiles) - 1) |->
                             IF i < index THEN uploadedFiles[i]
                             ELSE uploadedFiles[i + 1]]
    /\ UNCHANGED << projectName, formError, storageStatus, uploadpc, uploadArg,
                    uploadIndex, uploadResult, projectsCreated, storageObjects,
                    fileRows, analysed, projects, offered, named >>

\* A rejection reaches the catch of handleStartProcessing (174-185): the
\* message is shown and uploading ends.
Rejected(message) ==
    /\ formError' = << message >>
    /\ named' = named \cup ({message.file} \ {"none"})
    /\ uploadpc' = "form"

\* handleStartProcessing up to the call of uploadProjectFiles (136-168),
\* behind its button (404): the error is cleared and createProject inserts
\* the draft project, or returns nothing.
HandleStartProcessing ==
    /\ uploadpc = "form"
    /\ Len(uploadedFiles) > 0
    /\ projectName # ""
    /\ storageStatus = "available"
    /\ projectsCreated < MaxProjects
    /\ \E created \in BOOLEAN :
         IF created
         THEN /\ projectsCreated' = projectsCreated + 1
              /\ projects' = Append(projects, "draft")
              /\ formError' = << >>
              /\ uploadpc' = "uploading"
              /\ uploadArg' = uploadedFiles
              /\ uploadIndex' = 1
              /\ uploadResult' = << >>
              /\ UNCHANGED named
         ELSE /\ Rejected([text |-> "Failed to create project", file |-> "none"])
              /\ UNCHANGED << projectsCreated, projects, uploadArg,
                              uploadIndex, uploadResult >>
    /\ UNCHANGED << uploadedFiles, projectName, storageStatus, storageObjects,
                    fileRows, analysed, offered >>

\* Mutant of UploadFile: the record is inserted before the object is
\* uploaded, so a failed upload leaves a record without an object.
UploadFileRecordFirst ==
    /\ uploadpc = "uploading"
    /\ uploadIndex <= Len(uploadArg)
    /\ LET name == uploadArg[uploadIndex]
           file == FileObjects[name]
           object == [project |-> projectsCreated, name |-> name]
           Continue == /\ uploadIndex' = uploadIndex + 1
                       /\ UNCHANGED << formError, named, uploadpc >>
       IN  IF file.size = 0
           THEN /\ Continue
                /\ UNCHANGED << uploadResult, storageObjects, fileRows >>
           ELSE IF file.size > maxSize
           THEN /\ Rejected([text |-> "Error uploading file: is too large",
                             file |-> name])
                /\ UNCHANGED << uploadIndex, uploadResult, storageObjects,
                                fileRows >>
           ELSE \E uploaded \in BOOLEAN, inserted \in BOOLEAN, removed \in BOOLEAN :
                  CASE ~inserted ->
                         /\ Rejected([text |-> "Error uploading file: Failed to save file record",
                                      file |-> name])
                         /\ UNCHANGED << uploadIndex, uploadResult,
                                         storageObjects, fileRows >>
                    [] inserted /\ ~uploaded ->
                         /\ fileRows' = fileRows \cup {object}
                         /\ Rejected([text |-> "Error uploading file: Failed to upload",
                                      file |-> name])
                         /\ UNCHANGED << uploadIndex, uploadResult, storageObjects >>
                    [] inserted /\ uploaded ->
                         /\ storageObjects' = storageObjects \cup {object}
                         /\ fileRows' = fileRows \cup {object}
                         /\ uploadResult' = Append(uploadResult, name)
                         /\ Continue
    /\ UNCHANGED << uploadedFiles, projectName, storageStatus, uploadArg,
                    projectsCreated, analysed, projects, offered >>

\* One turn of the loop of uploadProjectFiles (fileUpload.ts 27-144) for the
\* current project: an empty file is skipped with a console warning; a file
\* over the cap throws; otherwise the object is uploaded and its row
\* inserted, a failed insert removes the object again if the removal works,
\* and every throw is rethrown with the file's name (134-142).
UploadFile ==
    /\ uploadpc = "uploading"
    /\ uploadIndex <= Len(uploadArg)
    /\ LET name == uploadArg[uploadIndex]
           file == FileObjects[name]
           object == [project |-> projectsCreated, name |-> name]
           Continue == /\ uploadIndex' = uploadIndex + 1
                       /\ UNCHANGED << formError, named, uploadpc >>
       IN  IF file.size = 0
           THEN /\ Continue
                /\ UNCHANGED << uploadResult, storageObjects, fileRows >>
           ELSE IF file.size > maxSize
           THEN /\ Rejected([text |-> "Error uploading file: is too large",
                             file |-> name])
                /\ UNCHANGED << uploadIndex, uploadResult, storageObjects,
                                fileRows >>
           ELSE \E uploaded \in BOOLEAN, inserted \in BOOLEAN, removed \in BOOLEAN :
                  CASE ~uploaded ->
                         /\ Rejected([text |-> "Error uploading file: Failed to upload",
                                      file |-> name])
                         /\ UNCHANGED << uploadIndex, uploadResult,
                                         storageObjects, fileRows >>
                    [] uploaded /\ ~inserted ->
                         /\ storageObjects' = IF removed THEN storageObjects
                                              ELSE storageObjects \cup {object}
                         /\ Rejected([text |-> "Error uploading file: Failed to save file record",
                                      file |-> name])
                         /\ UNCHANGED << uploadIndex, uploadResult, fileRows >>
                    [] uploaded /\ inserted ->
                         /\ storageObjects' = storageObjects \cup {object}
                         /\ fileRows' = fileRows \cup {object}
                         /\ uploadResult' = Append(uploadResult, name)
                         /\ Continue
    /\ UNCHANGED << uploadedFiles, projectName, storageStatus, uploadArg,
                    projectsCreated, analysed, projects, offered >>

\* Mutant of UploadReturns: the list is returned without the check of
\* lines 146-148, so processing starts with nothing uploaded.
UploadReturnsUnchecked ==
    /\ uploadpc = "uploading"
    /\ uploadIndex > Len(uploadArg)
    /\ uploadpc' = "processing"
    /\ UNCHANGED << formError, named >>
    /\ UNCHANGED << uploadedFiles, projectName, storageStatus, uploadArg,
                    uploadIndex, uploadResult, projectsCreated, storageObjects,
                    fileRows, analysed, projects, offered >>

\* After the loop (146-151) and back in handleStartProcessing (170-173):
\* with nothing uploaded the call throws, otherwise onProcessingStart makes
\* App show the ProcessingView of the project.
UploadReturns ==
    /\ uploadpc = "uploading"
    /\ uploadIndex > Len(uploadArg)
    /\ IF Len(uploadResult) = 0
       THEN Rejected([text |-> "No files were successfully uploaded",
                      file |-> "none"])
       ELSE /\ uploadpc' = "processing"
            /\ UNCHANGED << formError, named >>
    /\ UNCHANGED << uploadedFiles, projectName, storageStatus, uploadArg,
                    uploadIndex, uploadResult, projectsCreated, storageObjects,
                    fileRows, analysed, projects, offered >>

\* The status a call of processProjectFiles may leave on its project:
\* completed, draft after a failure that was reverted (aiProcessing.ts
\* 172-180), processing when the last write of the call failed.
RunOutcomes == {"completed", "draft", "processing"}

\* The run the ProcessingView starts reads the rows of the project
\* (aiProcessing.ts 27-35), analyses each of them and leaves the project
\* in one of the statuses a run ends with.
ProcessStoredFiles ==
    /\ uploadpc = "processing"
    /\ analysed' = { row \in fileRows : row.project = projectsCreated }
    /\ \E status \in RunOutcomes :
         projects' = [projects EXCEPT ![projectsCreated] = status]
    /\ uploadpc' = "processed"
    /\ UNCHANGED << uploadedFiles, projectName, formError, storageStatus,
                    uploadArg, uploadIndex, uploadResult, projectsCreated,
                    storageObjects, fileRows, offered, named >>

InitUpload ==
    /\ InitPipeline /\ env.keys = {} /\ Files = {1}
    /\ ViewUnmounted
    /\ ServiceUnused
    /\ FormUnused
    /\ UsualProvider

notUpload == << pipeline, failedOps, faults, view, localization, responses,
               rerender >>

NextUpload ==
    \/ CheckStorage /\ UNCHANGED notUpload
    \/ SetProjectName /\ UNCHANGED notUpload
    \/ ValidateAndAddFiles /\ UNCHANGED notUpload
    \/ RemoveFile /\ UNCHANGED notUpload
    \/ HandleStartProcessing /\ UNCHANGED notUpload
    \/ UploadFile /\ UNCHANGED notUpload
    \/ UploadReturns /\ UNCHANGED notUpload
    \/ ProcessStoredFiles /\ UNCHANGED notUpload

SpecUpload == InitUpload /\ [][NextUpload]_vars

\* ------------------------------------------------- any answer of a provider
\* The values a numeric field of the provider's JSON may hold: missing,
\* zero, negative, usual, and (for a percentage) over 100.
AnyQuantities == { NaN, Num(0), Num(-5), Num(10) }

AnyRates == { NaN, Num(-1999), Num(25050) }

AnyAccuracies == { NaN, Num(-10), Num(88), Num(150) }

\* The texts of Responses, and every JSON text with one item whose
\* quantity, rate and accuracy are drawn from the sets above (the reported
\* total is the product, or missing).
AnyResponses ==
    Responses \cup
    { [json |-> TRUE, hasItems |-> TRUE,
       identifiedItems |->
         << [category |-> "Structural", description |-> "Concrete slab",
             quantity |-> q, unit |-> "m3", estimatedRate |-> r] >>,
       totalEstimatedCost |-> IF q.nan \/ r.nan THEN NaN ELSE Num(q.v * r.v),
       accuracy |-> a] :
      q \in AnyQuantities, r \in AnyRates, a \in AnyAccuracies }

\* One project with one file and an OpenAI key, and a provider that may
\* answer anything.
InitAnyResponse ==
    /\ InitPipeline /\ env.keys = {"openai"} /\ Files = {1}
    /\ ViewUnmounted
    /\ ServiceUnused
    /\ FormUnused
    /\ responses = AnyResponses
    /\ renders = 0
    /\ pendingCalls = 0

\* A single call of processProjectFiles.
NextAnyResponse ==
    \/ StartProcessing /\ runs = 0 /\ UNCHANGED notPipeline
    \/ SelectFiles /\ UNCHANGED notPipeline
    \/ FileProcess /\ UNCHANGED notPipeline
    \/ FileMarkCompleted /\ UNCHANGED notPipeline
    \/ FileCatch /\ UNCHANGED notPipeline
    \/ InsertItems /\ UNCHANGED notPipeline
    \/ UpdateProject /\ UNCHANGED notPipeline
    \/ CatchRevert /\ UNCHANGED notPipeline

SpecAnyResponse == InitAnyResponse /\ [][NextAnyResponse]_vars

\* ---------------------------------------------------------------- claims
Finished == pc \in {"done", "failed"}

\* The run read its files and both final writes went through.
PersistenceWorked == failedOps \cap {"select", "insert", "update"} = {}

\* Some collected result carries at least one item.
SomeUsableResult ==
    \E i \in 1..Len(allAnalysisResults) :
      Len(allAnalysisResults[i].identifiedItems) > 0

\* The sum of the totals the provider reported (line 85).
RECURSIVE ReportedTotal(_)
ReportedTotal(results) ==
    IF results = << >> THEN MZero
    ELSE MAdd(results[1].totalEstimatedCost, ReportedTotal(Tail(results)))

IsFallbackOutput(items) == \E seed \in Seeds : items = FallbackOutputs[seed].items

\* C1: with two or more files, when the analysis of exactly one file fails
\* and all the others succeed (and no database call fails), the run ends
\* with the project completed, built from the N-1 successful results, the
\* failed file marked error and the other files marked completed.
C1_PartialFailure ==
    \A f \in Files :
      ( /\ pc = "done"
        /\ faults = 0
        /\ Cardinality(Files) >= 2
        /\ analysis[f] = "failed"
        /\ \A g \in Files \ {f} : analysis[g] = "ok" )
      => /\ project.status = "completed"
         /\ Len(allAnalysisResults) = Cardinality(Files) - 1
         /\ project_files[f] = "error"
         /\ \A g \in Files \ {f} : project_files[g] = "completed"

\* C2: when the insert of the items or the final update of the project
\* fails, the project ends in draft and the call rejects; no finished run
\* leaves the project in processing.
C2_WriteFailureReverts ==
    Finished =>
      /\ project.status # "processing"
      /\ failedOps \cap {"insert", "update"} # {}
           => project.status = "draft" /\ returned.kind = "rejected"

\* C3: over any sequence of runs (here: runs in which no database call
\* fails) the project status changes only along draft -> processing,
\* processing -> completed and processing -> draft; a completed project
\* never goes back to processing or draft.
C3_StatusTransitions ==
    [][ faults' = 0 /\ project'.status # project.status
          => << project.status, project'.status >> \in
               { << "draft", "processing" >>,
                 << "processing", "completed" >>,
                 << "processing", "draft" >> } ]_vars

\* C4 (as stated): in any run the fallback estimator is called at most
\* once, and exactly once when no AI is configured or no file gave a usable
\* result.
C4_FallbackOnceInEveryRun ==
    /\ fallbackCalls <= 1
    /\ Finished /\ (~UseRealAI(env) \/ ~SomeUsableResult) => fallbackCalls = 1

\* C4 (amended): in any run the fallback estimator is called at most once;
\* in a run that found the project's files it is called exactly once when
\* no AI is configured or no file gave a result with items, and not at all
\* otherwise, whatever the number of files.
C4_FallbackOnce ==
    /\ fallbackCalls <= 1
    /\ Finished /\ "select" \notin failedOps
         => fallbackCalls = IF ~UseRealAI(env) \/ ~SomeUsableResult THEN 1 ELSE 0

C4_Witness ==
    /\ Finished
    /\ "select" \notin failedOps
    /\ Cardinality(Files) = 2
    /\ Len(allAnalysisResults) = 2
    /\ fallbackCalls = 1

\* C5: the totalCost a run returns, and the total_cost it writes to the
\* project, is the sum of the amounts of the returned items, whatever the
\* provider reported as total.
C5_TotalIsSumOfItems ==
    /\ returned.kind = "resolved" => returned.totalCost = SumAmounts(returned.items)
    /\ pc = "done" /\ "update" \notin failedOps
         => project.total_cost = SumAmounts(returned.items)

C5_Witness ==
    /\ pc = "done"
    /\ "update" \notin failedOps
    /\ fallbackCalls = 0
    /\ ReportedTotal(allAnalysisResults) # returned.totalCost
    /\ project.total_cost = returned.totalCost

\* C6: whenever the fallback estimator ran, its item list is not empty,
\* every quantity and every rate is > 0, and the total derived from it is
\* the sum of the item amounts, in whole cents.
C6_FallbackWellFormed ==
    fallbackCalls = 1 =>
      /\ Len(estimationItems) > 0
      /\ \A i \in 1..Len(estimationItems) :
           /\ estimationItems[i].quantity > 0
           /\ MPositive(estimationItems[i].rate)
      /\ totalEstimatedCost = SumAmounts(estimationItems)

C6_Witness ==
    /\ fallbackCalls = 1
    /\ pc = "update"
    /\ Len(estimationItems) >= 8

\* C7: with no AI provider configured, a run on a project with one or more
\* files (whose database calls for reading the files and writing the
\* results succeed) ends with the project completed, returns a non-empty
\* item list made by the fallback estimator, and reports an accuracy in
\* [85, 98].
C7_ZeroConfig ==
    Finished /\ env.keys = {} /\ PersistenceWorked
      => /\ pc = "done"
         /\ project.status = "completed"
         /\ Len(returned.items) > 0
         /\ IsFallbackOutput(returned.items)
         /\ returned.accuracy >= 850
         /\ returned.accuracy <= 980

C7_Witness ==
    /\ pc = "done"
    /\ env.keys = {}
    /\ PersistenceWorked
    /\ Cardinality(Files) = 2
    /\ project.status = "completed"

\* Every file of the project was analysed and every result has an empty
\* item list.
AllResultsEmpty ==
    /\ UseRealAI(env)
    /\ Len(allAnalysisResults) = Cardinality(Files)
    /\ ~SomeUsableResult

\* C8: with a configured provider that returns a result with an empty item
\* list for every file, the fallback estimator's output replaces the whole
\* item list and the project completes with a total_cost > 0 (the database
\* calls succeeding).
C8_DegradedAI ==
    Finished /\ AllResultsEmpty /\ PersistenceWorked
      => /\ pc = "done"
         /\ fallbackCalls = 1
         /\ IsFallbackOutput(returned.items)
         /\ project.status = "completed"
         /\ MPositive(project.total_cost)
         /\ project.total_cost = returned.totalCost

C8_Witness ==
    /\ pc = "done"
    /\ AllResultsEmpty
    /\ PersistenceWorked
    /\ Cardinality(Files) = 2
    /\ MPositive(project.total_cost)

\* C9: after any sequence of runs (here: runs in which no database call
\* fails) the stored items are those of the most recent successful run (a
\* re-run replaces), so the total_cost of a completed project is the sum of
\* the amounts of its stored items.
C9_RerunReplaces ==
    faults = 0 =>
      /\ pc = "done" => estimation_items = returned.items
      /\ project.status = "completed"
           => project.total_cost = SumAmounts(estimation_items)

\* C10: a run's items and the project's final status, total_cost, accuracy
\* and processing_time are committed together: in no state are the run's
\* items stored while the project does not carry that run's status and
\* totals.
C10_AtomicCommit ==
    pc \in {"update", "done"}
      => /\ project.status = "completed"
         /\ project.total_cost = totalEstimatedCost
         /\ project.accuracy = averageAccuracy
         /\ project.processing_time = ProcessingTime(elapsed)
\* C11: once the view is mounted, and every external call returns, the view
\* eventually calls onComplete with results or shows the error panel; it
\* does not show the in-progress display forever.
C11_ViewSettles == <>(viewpc \in {"completed", "error"})

\* C12: for all currencies A and B of EXCHANGE_RATES and every amount x,
\* converting x from A to B and the result back from B to A gives x (here
\* exactly, the arithmetic being exact).
C12_CurrencyRoundTrip ==
    ( /\ lastCall.op = "convertCurrency" /\ lastCall.returned
      /\ lastCall.fromCurrency \in DOMAIN EXCHANGE_RATES
      /\ lastCall.toCurrency \in DOMAIN EXCHANGE_RATES )
    => lastCall.back.value = lastCall.amount

\* A non-zero amount went from one listed currency to another and back.
C12_Witness ==
    /\ lastCall.op = "convertCurrency" /\ lastCall.returned
    /\ lastCall.fromCurrency = "EUR"
    /\ lastCall.toCurrency = "KRW"
    /\ lastCall.amount = Rat(2599, 100)
    /\ lastCall.result.value # lastCall.amount
    /\ lastCall.back.value = lastCall.amount

\* C13: for every amount x and every currency code A, listed in
\* EXCHANGE_RATES or not, convertCurrency(x, A, A) returns exactly x and
\* performs no division and no multiplication.
C13_SameCurrencyIdentity ==
    ( /\ lastCall.op = "convertCurrency" /\ lastCall.returned
      /\ lastCall.fromCurrency = lastCall.toCurrency )
    => /\ lastCall.result.value = lastCall.amount
       /\ lastCall.result.ops = 0

\* A non-zero amount was converted from a listed currency other than the
\* base (rate 0.85) to itself.
C13_Witness ==
    /\ lastCall.op = "convertCurrency" /\ lastCall.returned
    /\ lastCall.fromCurrency = "EUR"
    /\ lastCall.toCurrency = "EUR"
    /\ lastCall.amount = Rat(2599, 100)
    /\ lastCall.result.value = Rat(2599, 100)

\* The unit pairs of the table: area, volume, length, weight.
SupportedUnitPairs ==
    { << "m2", "sq ft" >>, << "m3", "cu ft" >>, << "m", "ft" >>, << "kg", "lbs" >> }

\* C14: for each supported unit pair, in both directions, and every value
\* v, converting v to the other unit and back gives a value within 1% of v.
C14_UnitRoundTrip ==
    ( /\ lastCall.op = "convertUnits" /\ lastCall.returned
      /\ \/ << lastCall.fromUnit, lastCall.toUnit >> \in SupportedUnitPairs
         \/ << lastCall.toUnit, lastCall.fromUnit >> \in SupportedUnitPairs )
    => RLe(RAbs(RSub(lastCall.back, lastCall.value)),
           RMul(lastCall.value, Rat(1, 100)))

\* 1000 cu ft went to m3 (28.3) and back (999.3862), not exactly 1000.
C14_Witness ==
    /\ lastCall.op = "convertUnits" /\ lastCall.returned
    /\ lastCall.fromUnit = "cu ft"
    /\ lastCall.toUnit = "m3"
    /\ lastCall.value = Rat(1000, 1)
    /\ lastCall.result = Rat(283, 10)
    /\ lastCall.back = Rat(9993862, 10000)

\* C15: the country getCurrentCountry returns is always a country of
\* COUNTRIES, chosen by the first rule that applies: the saved (selected)
\* code when it is a code of COUNTRIES, else the country with exactly the
\* browser's locale, else the one with exactly its time zone, else one with
\* its language, else US.
C15_CountryResolution ==
    lastCall.op = "getCurrentCountry" =>
      LET result     == FindBy("code", lastCall.result)
          userLocale == UserLocale(navigator)
          Has(Test(_)) == \E i \in DOMAIN COUNTRIES : Test(COUNTRIES[i])
      IN  /\ result # Undefined
          /\ CASE localStorage \in CountryCodes -> result.code = localStorage
               [] localStorage \notin CountryCodes
                    /\ Has(LAMBDA c : c.locale = userLocale)
                    -> result.locale = userLocale
               [] localStorage \notin CountryCodes
                    /\ ~Has(LAMBDA c : c.locale = userLocale)
                    /\ Has(LAMBDA c : c.timezone = navigator.timeZone)
                    -> result.timezone = navigator.timeZone
               [] localStorage \notin CountryCodes
                    /\ ~Has(LAMBDA c : c.locale = userLocale)
                    /\ ~Has(LAMBDA c : c.timezone = navigator.timeZone)
                    /\ Has(LAMBDA c : c.locale[1] = userLocale[1])
                    -> result.locale[1] = userLocale[1]
               [] OTHER -> result.code = "US"

\* With a string saved that is no code, a locale of one country and the
\* time zone of another, the locale decided.
C15_Witness ==
    /\ lastCall.op = "getCurrentCountry"
    /\ localStorage = "XX"
    /\ navigator = [language |-> << "en", "GB" >>, timeZone |-> "Europe/Paris"]
    /\ lastCall.result = "GB"

\* C16: every currency of a country of COUNTRIES has a rate in
\* EXCHANGE_RATES, the rate is positive, the rate of USD is exactly 1, and
\* no amount formatted in the currency of the country in use was converted
\* with the default rate 1.
C16_RatesCoverCountries ==
    /\ \A i \in DOMAIN COUNTRIES :
         /\ COUNTRIES[i].currency \in DOMAIN EXCHANGE_RATES
         /\ EXCHANGE_RATES[COUNTRIES[i].currency].n > 0
    /\ EXCHANGE_RATES["USD"] = Rat(1, 1)
    /\ lastCall.op = "formatCurrency" => lastCall.result.defaulted = {}

\* 1000 USD was formatted for Chile: 800000 pesos, no fraction digits.
C16_Witness ==
    /\ lastCall.op = "formatCurrency"
    /\ currentCountry = "CL"
    /\ lastCall.amount = Rat(1000, 1)
    /\ lastCall.result.currency = "CLP"
    /\ lastCall.result.digits = 800000
    /\ lastCall.result.fractionDigits = 0

\* C17: in the results view of a country whose currency is EUR (rate
\* 0.85), an item with canonical amount 1000 (USD) is shown with amount
\* 850: the canonical amount times the rate of the currency, and nothing
\* else.
C17_EuroDisplay ==
    ( /\ lastCall.op = "renderResults"
      /\ FindBy("code", currentCountry).currency = "EUR" )
    => \A i \in DOMAIN lastCall.shown.items :
         lastCall.shown.items[i].amount = Rat(1000, 1)
           => /\ lastCall.shown.amounts[i].currency = "EUR"
              /\ lastCall.shown.amounts[i].digits = 85000

\* A file the form and uploadProjectFiles are to turn away: empty, over the
\* cap, or with neither its MIME type nor its extension on the lists.
MustBeRejected(name) ==
    \/ FileObjects[name].size = 0
    \/ FileObjects[name].size > maxSize
    \/ /\ FileObjects[name].type \notin allowedTypes
       /\ fileExtension(name) \notin allowedExtensions

\* The loop of the last uploadProjectFiles call has gone past the file.
LoopPassed(name) ==
    \E i \in 1..Len(uploadArg) : i < uploadIndex /\ uploadArg[i] = name

\* Nothing was stored, inserted or analysed for the file.
NoExternalCallFor(name) ==
    /\ \A object \in storageObjects : object.name # name
    /\ \A row \in fileRows : row.name # name
    /\ \A row \in analysed : row.name # name

\* C18: a file given to the form that is empty, over the 50MB cap, or
\* outside both allow-lists never gets a storage object, a project_files
\* row or an analysis, and an error message names it: as soon as it is
\* given when the form turns it away, and once the upload loop has gone
\* past it otherwise.
C18_InvalidFileRejected ==
    \A name \in offered :
      MustBeRejected(name)
        => /\ NoExternalCallFor(name)
           /\ (IsRejectedFile(name) \/ LoopPassed(name)) => name \in named

\* The part of C18 that the code keeps: nothing external happens for such
\* a file, and one over the cap or of an unsupported type is named at once.
C18_ExceptEmptyFiles ==
    \A name \in offered :
      MustBeRejected(name)
        => /\ NoExternalCallFor(name)
           /\ FileObjects[name].size # 0 => name \in named

\* The sum of the accuracy scores of a list of analysis results.
RECURSIVE SumAccuracy(_)
SumAccuracy(results) ==
    IF results = << >> THEN 0
    ELSE results[1].accuracy + SumAccuracy(Tail(results))

\* The files of the run whose analysis gave a result.
Succeeded == { f \in Files : analysis[f] = "ok" }

\* The run ended with the items of the real results, not the fallback's.
RealResultsUsed ==
    /\ pc = "done"
    /\ useRealAI
    /\ Len(FlatMapItems(allAnalysisResults)) > 0

FileStatusMoves ==
    { << "pending", "processing" >>, << "processing", "completed" >>,
      << "processing", "error" >> }

\* In this step every file keeps its status or makes one of the moves.
FileStatusStep ==
    \A f \in Files :
      \/ project_files'[f] = project_files[f]
      \/ << project_files[f], project_files'[f] >> \in FileStatusMoves

\* After this step the call has returned a result and no file is left
\* pending or processing.
FilesSettledOnReturn ==
    pc' = "done" => \A f \in Files : project_files'[f] \in {"completed", "error"}

\* C20: as long as no database call has failed, a file's processing_status
\* changes only pending -> processing, processing -> completed or
\* processing -> error, and when processProjectFiles returns a result every
\* file is completed or error.
C20_FileStatusChain ==
    [][faults' = 0 => FileStatusStep /\ FilesSettledOnReturn]_vars

\* The part of C20 that the code keeps: in the first call on a project the
\* statuses move along the chain, and in every call that returns a result
\* with no failed write every file ends completed or error.
C20_FirstRunOnly ==
    [][faults' = 0 => (runs' = 1 => FileStatusStep) /\ FilesSettledOnReturn]_vars

\* C21: every item the fallback estimator returned has an amount equal to
\* its own quantity times its own rate (both as the item reports them; the
\* rate has two decimals, so the product needs no further rounding).
C21_FallbackAmountIsQuantityTimesRate ==
    fallbackCalls > 0
      => \A i \in DOMAIN estimationItems :
           estimationItems[i].amount
             = MScale(estimationItems[i].quantity, estimationItems[i].rate)

\* A money value in cents.
Cents(m) == 100 * m.d + m.c

\* The item is made from this catalog entry: same category, description
\* and unit, and a rate within 20% of the entry's base rate either way.
MadeFrom(item, entry) ==
    /\ item.category = entry.category
    /\ item.description = entry.description
    /\ item.unit = entry.unit
    /\ 5 * Cents(item.rate) >= 4 * entry.baseRate
    /\ 5 * Cents(item.rate) <= 6 * entry.baseRate

\* C22: the fallback estimator returned 8 to 12 items; each is made from
\* an entry of the 14-entry catalog with a rate within +/-20% of its base
\* rate and a whole quantity from 10 to 209; no entry was used twice.
C22_FallbackShape ==
    fallbackCalls > 0
      => /\ Len(Catalog) = 14
         /\ Len(estimationItems) \in 8..12
         /\ \A i \in DOMAIN estimationItems :
              /\ \E e \in DOMAIN Catalog : MadeFrom(estimationItems[i], Catalog[e])
              /\ estimationItems[i].quantity \in 10..209
         /\ \A i, j \in DOMAIN estimationItems :
              estimationItems[i].description = estimationItems[j].description
                => i = j

\* The fallback estimator returned more than 8 items, one of them at the
\* low end of the jitter (0.8 of its base rate) and one above its base
\* rate, one with the least quantity 10 and one with a greater quantity.
C22_Witness ==
    /\ fallbackCalls > 0
    /\ Len(estimationItems) > 8
    /\ \E i \in DOMAIN estimationItems, e \in DOMAIN Catalog :
         /\ MadeFrom(estimationItems[i], Catalog[e])
         /\ 5 * Cents(estimationItems[i].rate) = 4 * Catalog[e].baseRate
    /\ \E i \in DOMAIN estimationItems, e \in DOMAIN Catalog :
         /\ MadeFrom(estimationItems[i], Catalog[e])
         /\ Cents(estimationItems[i].rate) > Catalog[e].baseRate
    /\ \E i \in DOMAIN estimationItems : estimationItems[i].quantity = 10
    /\ \E i \in DOMAIN estimationItems : estimationItems[i].quantity > 10

MNonNegative(m) == m.d >= 0

\* C23: whatever the provider answers, every row of estimation_items has
\* quantity, rate and amount of at least 0, and the accuracy of a completed
\* project (in tenths of a percent) lies within 0..100.
C23_PersistedValuesInRange ==
    /\ \A i \in DOMAIN estimation_items :
         /\ estimation_items[i].quantity >= 0
         /\ MNonNegative(estimation_items[i].rate)
         /\ MNonNegative(estimation_items[i].amount)
    /\ project.status = "completed" => project.accuracy \in 0..1000

\* processProjectFiles calls made so far, and those not yet settled.
CallsMade == runs + pendingCalls

InFlight == (IF RunActive THEN 1 ELSE 0) + pendingCalls

\* C24: as long as no database call has failed, at most one
\* processProjectFiles call is in flight for the project, the
\* ProcessingView makes at most one call however often App renders, and a
\* call is only made while the project is in status draft.
C24_SingleRun ==
    [][faults' = 0
         => /\ InFlight' <= 1
            /\ CallsMade' <= 1
            /\ CallsMade' > CallsMade => project.status = "draft"]_vars

\* The provider the run is configured for has no key: no key is set at
\* all, or only another provider's.
NoClientForProvider == env.provider \notin env.keys

\* C25: when the configured provider has no client, a run in which no
\* database call fails is not an error: it returns a result made by one
\* call of the fallback estimator, no analysis result is collected, and
\* the project ends completed.
C25_MissingCredentialsFallBack ==
    Finished /\ NoClientForProvider /\ failedOps = {}
      => /\ pc = "done"
         /\ returned.kind = "resolved"
         /\ allAnalysisResults = << >>
         /\ fallbackCalls = 1
         /\ IsFallbackOutput(returned.items)
         /\ project.status = "completed"

\* A run ended with only an Anthropic key set while the provider is
\* openai: the analysis of both files failed and the fallback was used.
C25_Witness ==
    /\ pc = "done"
    /\ env = [keys |-> {"anthropic"}, provider |-> "openai"]
    /\ failedOps = {}
    /\ useRealAI
    /\ Cardinality(Files) = 2
    /\ \A f \in Files : analysis[f] = "failed"
    /\ fallbackCalls = 1
    /\ project.status = "completed"

\* A provider text without a JSON block, or whose JSON has no
\* identifiedItems array.
Malformed(response) == ~response.json \/ ~response.hasItems

\* The file loop is past the file in the current run.
LoopPast(f) ==
    \/ pc \in {"aggregate", "update", "done"}
    \/ pc \in {"file", "fileCompleted", "fileCatch"} /\ f < fileIndex

\* C26: a malformed provider text is parsed into a result with an empty
\* item list; and as long as no database call fails, no file's analysis
\* throws, every file whose analysis gave a result or failed is marked
\* completed once the loop is past it, one result is collected per analysed
\* file, and the run is never aborted.
C26_MalformedAndFailedAnalyses ==
    /\ \A r \in responses :
         Malformed(r) => parseAIResponse(r).identifiedItems = << >>
    /\ faults = 0
         => /\ pc \notin {"catch", "failed"}
            /\ \A f \in Files :
                 /\ analysis[f] # "thrown"
                 /\ LoopPast(f) /\ analysis[f] \in {"ok", "failed"}
                      => project_files[f] = "completed"
            /\ RunActive \/ pc = "done"
                 => Len(allAnalysisResults)
                      = Cardinality({ f \in Files : analysis[f] = "ok" })

\* A run of two files ended with no failed database call: the provider
\* call failed for the first file, the answer for the second was malformed
\* and gave the empty result; both files are completed and so is the
\* project.
C26_Witness ==
    /\ pc = "done"
    /\ faults = 0
    /\ Cardinality(Files) = 2
    /\ analysis[1] = "failed"
    /\ analysis[2] = "ok"
    /\ allAnalysisResults = << ParseFailure >>
    /\ \A f \in Files : project_files[f] = "completed"
    /\ project.status = "completed"

\* Every file record of the project is completed or error.
AllFilesSettled == \A f \in Files : project_files[f] \in {"completed", "error"}

\* A step that inserts estimation items or writes the project completed.
WritesEstimate ==
    \/ estimation_items' # estimation_items
    \/ project'.status = "completed" /\ project.status # "completed"

\* C27: items are inserted, and the project is written completed, only
\* in a state where every file record of the project is completed or error;
\* no item is inserted while a file is pending or processing.
C27_ItemsAfterAllFilesSettled ==
    [][WritesEstimate => AllFilesSettled]_vars

\* The same for the runs in which no database call has failed.
C27_WithoutFailedWrites ==
    [][WritesEstimate /\ faults' = 0 => AllFilesSettled]_vars

\* The object and the record uploadProjectFiles makes for a file of the
\* current project.
StoredAs(name) == [project |-> projectsCreated, name |-> name]

\* uploadProjectFiles has returned its list to handleStartProcessing.
UploadReturned == uploadpc \in {"processing", "processed"}

\* The step in which the insert of a file's record fails.
RecordInsertFails ==
    /\ uploadpc = "uploading"
    /\ formError' # formError
    /\ formError' # << >>
    /\ formError'[1].text = "Error uploading file: Failed to save file record"

\* C28: a record exists only for a stored object; a failed record insert
\* ends the call with an error, adds no record and leaves at most the one
\* object just uploaded (none when its removal worked); the call never
\* returns an empty list, and every entry it returns has a stored object and
\* a record.
C28_RecordAfterObject ==
    [][ /\ fileRows' \subseteq storageObjects'
        /\ RecordInsertFails
             => /\ uploadpc' = "form"
                /\ fileRows' = fileRows
                /\ uploadResult' = uploadResult
                /\ storageObjects' \ storageObjects
                     \subseteq {StoredAs(formError'[1].file)}
                /\ storageObjects \subseteq storageObjects'
        /\ UploadReturned'
             => /\ Len(uploadResult') > 0
                /\ \A i \in 1..Len(uploadResult') :
                     [project |-> projectsCreated', name |-> uploadResult'[i]]
                       \in storageObjects' \cap fileRows'
      ]_vars

\* uploadProjectFiles was called with an empty file and a usable one: it
\* skipped the first and returned the second, stored and recorded.
C28_Witness ==
    /\ uploadpc = "processing"
    /\ Len(uploadArg) = 2
    /\ FileObjects[uploadArg[1]].size = 0
    /\ uploadResult = << uploadArg[2] >>
    /\ StoredAs(uploadArg[2]) \in storageObjects \cap fileRows

\* The step in which handleStartProcessing calls onProcessingStart.
ProcessingStarts == uploadpc # "processing" /\ uploadpc' = "processing"

\* The step in which createProject or uploadProjectFiles fails.
CreationOrUploadFails ==
    /\ formError' # formError
    /\ formError' # << >>
    /\ \/ formError'[1].text = "Failed to create project"
       \/ uploadpc = "uploading" /\ uploadpc' = "form"

\* Processing has been started for project p.
StartedFor(p) == p = projectsCreated /\ uploadpc \in {"processing", "processed"}

\* C29: every project is created in status draft; onProcessingStart is
\* called only when uploadProjectFiles has gone through every file of a
\* created project and stored at least one record for it; a step in which
\* createProject or an upload fails does not start processing; and a
\* project for which processing was not started is still in draft and none
\* of its records was analysed.
C29_ProcessingOnlyAfterUpload ==
    [][ /\ Len(projects') > Len(projects)
          => projects' = Append(projects, "draft")
        /\ ProcessingStarts
          => /\ uploadpc = "uploading"
             /\ projectsCreated \in 1..Len(projects)
             /\ projects[projectsCreated] = "draft"
             /\ uploadIndex > Len(uploadArg)
             /\ \E row \in fileRows : row.project = projectsCreated
        /\ CreationOrUploadFails
          => /\ uploadpc' = "form"
             /\ projects' = projects
             /\ analysed' = analysed
        /\ \A p \in 1..Len(projects') :
             ~StartedFor(p)'
               => /\ projects'[p] = "draft"
                  /\ \A row \in analysed' : row.project # p
      ]_vars

\* The upload of a project's second file failed after its first file was
\* stored and recorded: the project is in draft, the form is shown again
\* with the message, and nothing of the project was analysed.
C29_Witness ==
    /\ uploadpc = "form"
    /\ projectsCreated = 1
    /\ projects = << "draft" >>
    /\ formError # << >>
    /\ uploadIndex = 2
    /\ \E row \in fileRows : row.project = 1
    /\ analysed = {}

\* The regional factor the results view applies to an item in a country:
\* the factor of the item's category, the materials factor when the
\* country's table has none for it.
RegionalFactor(item, country) ==
    LET costFactors == getRegionalCostFactors(country)
        category == toLowerCase(item.category)
    IN  IF category \in DOMAIN costFactors THEN costFactors[category]
        ELSE costFactors.materials

\* The results view has changed the unit of the item.
UnitConverted(i) == lastCall.shown.localizedItems[i].unit # lastCall.shown.items[i].unit

\* The sum of the first k displayed amounts.
RECURSIVE ShownSum(_)
ShownSum(k) ==
    IF k = 0 THEN Rat(0, 1)
    ELSE RAdd(ShownSum(k - 1), lastCall.shown.localizedItems[k].amount)

\* C30: in the results view, an item converted between m2 and sq ft has
\* its quantity and its factored rate scaled by reciprocal factors; every
\* item, converted or not, is shown with the amount canonical quantity x
\* canonical rate x regional factor of its category; and the total shown is
\* the sum of the amounts shown.
C30_DisplayedAmounts ==
    lastCall.op = "renderResults"
    => LET country == FindBy("code", currentCountry)
           shown == lastCall.shown
       IN  /\ \A i \in DOMAIN shown.items :
                LET item == shown.items[i]
                    displayed == shown.localizedItems[i]
                    factoredRate == RMul(item.rate, RegionalFactor(item, country))
                IN  /\ displayed.amount = RMul(item.quantity, factoredRate)
                    /\ displayed.amount = RMul(displayed.quantity, displayed.rate)
                    /\ UnitConverted(i)
                         => /\ displayed.quantity # item.quantity
                            /\ RMul(RDiv(displayed.quantity, item.quantity),
                                    RDiv(displayed.rate, factoredRate)) = Rat(1, 1)
           /\ lastCall.localizedTotalCost = ShownSum(Len(shown.localizedItems))

\* The results view of a metric country whose structural factor is not 1:
\* the item stored in sq ft is shown in the country's area unit with a
\* quantity of 9.29.
C30_Witness ==
    /\ lastCall.op = "renderResults"
    /\ FindBy("code", currentCountry).measurementSystem = "metric"
    /\ RegionalFactor(lastCall.shown.items[1], FindBy("code", currentCountry)) # Rat(1, 1)
    /\ UnitConverted(1)
    /\ lastCall.shown.localizedItems[1].quantity = Rat(929, 100)

====
